---- MODULE Spec2Model ----
(***************************************************************************)
(* SnipeTrade: the order-intent executor (router, policy gate, executor,   *)
(* paper venue client, persisted order state, journal) and the TTL cache.  *)
(*                                                                         *)
(* Strings that the code builds by concatenation are modelled as tuples:   *)
(* the idempotency key prefix || plan_id || "_limit" is <<plan_id,         *)
(* "limit">>.  uuid4 order ids are fresh naturals.  Money is an integer.   *)
(***************************************************************************)
EXTENDS Integers, Sequences, FiniteSets, TLC

VARIABLES
    file,       \* journal/orders_state.json: [exists, complete, data]
    journal,    \* journal/<date>.jsonl, one record per appended line
    orders,     \* PaperPhemexClient._orders: order_id -> _OrderRecord
    id_map,     \* PaperPhemexClient._id_map: idempotency key -> order_id
    counters,   \* AutotradeMetrics._counters
    health,     \* AutotradeHealth._success / _errors
    now,        \* the wall clock, in seconds
    run,        \* one route_autotrade invocation per element of Runs
    hist,       \* per plan_id, the statuses written to the document, in order
    telegram,   \* Config().has_telegram_configured(): bot token and chat id set
    lock,       \* PaperPhemexClient._lock: the caller holding it, 0 when free
    caller,     \* one coroutine calling the paper client per element of Callers
    returned,   \* per idempotency key, the orderIDs place has returned for it
    nplace,     \* per idempotency key, the place calls that have returned
    worker,     \* one process writing the order-state file per element of Writers
    seenPartial,\* whether a reader has opened the file while it was half written
    store,      \* TTLCache._store: key -> _CacheEntry
    ret,        \* what the latest TTLCache.get returned, and when
    last,       \* per key, the latest mutation of the cache that touched it
    pol,        \* one check_policy call: its arguments, and its return once made
    rlock,      \* TTLCache._lock: the thread holding it, 0 when free
    thr,        \* one thread calling the cache per element of Threads
    stored,     \* per key, the values set has stored for it
    audit,      \* what the gets have done so far: [foreign, lostFresh]
    req,        \* one _request_with_retries call: its position, attempt counter and outcome
    ev,         \* the latest QualityGates.evaluate call: its arguments and the list it returned
    scn,        \* one TradeScanner.scan call: its pairs, its futures and what it has collected
    so,         \* scan_once calls made back to back: arguments, loop position, candidates, results
    sz,         \* one position_size_leverage call: its arguments and what it returned
    dx,         \* one decide_execution call: its arguments and the dict it returned
    mk,         \* one TradeSetup construction: who builds it, its keyword arguments, and the model built
    tr,         \* each invocation of the trade command
    sc,         \* a call of score_setup, for its timeframe confluence
    pp,         \* the calls made on the paper client
    al          \* the ccxt adapter's candle cache and the lists it handed out

execOnly == <<journal, counters, health, run, hist, telegram>>

venueOnly == <<lock, caller, returned, nplace>>

writerOnly == <<worker, seenPartial>>

cacheOnly == <<store, ret, last>>

threadOnly == <<rlock, thr, stored, audit>>

retryOnly == <<req>>

gatesOnly == <<ev>>

scanOnly == <<scn>>

onceOnly == <<so>>

sizeOnly == <<sz>>

decideOnly == <<dx>>

setupOnly == <<mk>>

tradeOnly == <<tr>>

scorerOnly == <<sc>>

paperOnly == <<pp>>

aliasOnly == <<al>>

\* what the executor's steps leave alone, and what the paper client's do
nonExec == <<venueOnly, writerOnly, cacheOnly, pol, threadOnly, retryOnly, gatesOnly, scanOnly, onceOnly, sizeOnly, decideOnly, setupOnly, tradeOnly, scorerOnly, paperOnly, aliasOnly>>

nonVenue == <<execOnly, file, now, writerOnly, cacheOnly, pol, threadOnly, retryOnly, gatesOnly, scanOnly, onceOnly, sizeOnly, decideOnly, setupOnly, tradeOnly, scorerOnly, paperOnly, aliasOnly>>

nonWriter == <<execOnly, venueOnly, orders, id_map, now, cacheOnly, pol, threadOnly, retryOnly, gatesOnly, scanOnly, onceOnly, sizeOnly, decideOnly, setupOnly, tradeOnly, scorerOnly, paperOnly, aliasOnly>>

nonCache == <<execOnly, venueOnly, writerOnly, file, orders, id_map, pol, threadOnly, retryOnly, gatesOnly, scanOnly, onceOnly, sizeOnly, decideOnly, setupOnly, tradeOnly, scorerOnly, paperOnly, aliasOnly>>

nonPolicy ==
    <<execOnly, venueOnly, writerOnly, cacheOnly, file, orders, id_map, now, threadOnly, retryOnly, gatesOnly, scanOnly, onceOnly, sizeOnly, decideOnly, setupOnly, tradeOnly, scorerOnly, paperOnly, aliasOnly>>

nonThread ==
    <<execOnly, venueOnly, writerOnly, ret, last, file, orders, id_map, pol, retryOnly, gatesOnly, scanOnly, onceOnly, sizeOnly, decideOnly, setupOnly, tradeOnly, scorerOnly, paperOnly, aliasOnly>>

nonRetry ==
    <<execOnly, venueOnly, writerOnly, cacheOnly, threadOnly, file, orders, id_map, now, pol, gatesOnly, scanOnly, onceOnly, sizeOnly, decideOnly, setupOnly, tradeOnly, scorerOnly, paperOnly, aliasOnly>>

nonGates ==
    <<execOnly, venueOnly, writerOnly, cacheOnly, threadOnly, retryOnly, file, orders, id_map, now, pol, scanOnly, onceOnly, sizeOnly, decideOnly, setupOnly, tradeOnly, scorerOnly, paperOnly, aliasOnly>>

nonScan ==
    <<execOnly, venueOnly, writerOnly, cacheOnly, threadOnly, retryOnly, gatesOnly, file, orders, id_map, now, pol, onceOnly, sizeOnly, decideOnly, setupOnly, tradeOnly, scorerOnly, paperOnly, aliasOnly>>

nonOnce ==
    <<execOnly, venueOnly, writerOnly, cacheOnly, threadOnly, retryOnly, gatesOnly, scanOnly, file, orders, id_map, now, pol, sizeOnly, decideOnly, setupOnly, tradeOnly, scorerOnly, paperOnly, aliasOnly>>

nonSize ==
    <<execOnly, venueOnly, writerOnly, cacheOnly, threadOnly, retryOnly, gatesOnly, scanOnly, onceOnly, file, orders, id_map, now, pol, decideOnly, setupOnly, tradeOnly, scorerOnly, paperOnly, aliasOnly>>

nonDecide ==
    <<execOnly, venueOnly, writerOnly, cacheOnly, threadOnly, retryOnly, gatesOnly, scanOnly, onceOnly, sizeOnly, file, orders, id_map, now, pol, setupOnly, tradeOnly, scorerOnly, paperOnly, aliasOnly>>

nonSetup ==
    <<execOnly, venueOnly, writerOnly, cacheOnly, threadOnly, retryOnly, gatesOnly, scanOnly, onceOnly, sizeOnly, decideOnly, file, orders, id_map, now, pol, tradeOnly, scorerOnly, paperOnly, aliasOnly>>

nonTrade ==
    <<execOnly, venueOnly, writerOnly, cacheOnly, threadOnly, retryOnly, gatesOnly, scanOnly, onceOnly, sizeOnly, decideOnly, setupOnly, orders, id_map, now, pol, scorerOnly, paperOnly, aliasOnly>>

nonScorer ==
    <<execOnly, venueOnly, writerOnly, cacheOnly, threadOnly, retryOnly, gatesOnly, scanOnly, onceOnly, sizeOnly, decideOnly, setupOnly, tradeOnly, file, orders, id_map, now, pol, paperOnly, aliasOnly>>

nonPaper ==
    <<execOnly, venueOnly, writerOnly, cacheOnly, threadOnly, retryOnly, gatesOnly, scanOnly, onceOnly, sizeOnly, decideOnly, setupOnly, tradeOnly, scorerOnly, file, now, pol, aliasOnly>>

nonAlias ==
    <<execOnly, venueOnly, writerOnly, cacheOnly, threadOnly, retryOnly, gatesOnly, scanOnly, onceOnly, sizeOnly, decideOnly, setupOnly, tradeOnly, scorerOnly, paperOnly, file, orders, id_map, now, pol>>

vars ==
    <<file, journal, orders, id_map, counters, health, now, run, hist, telegram,
      lock, caller, returned, nplace, worker, seenPartial, store, ret, last,
      pol,
      rlock, thr, stored, audit,
      req,
      ev,
      scn,
      so,
      sz,
      dx,
      mk,
      tr,
      sc,
      pp,
      al>>

----------------------------------------------------------------------------
(* Generic helpers *)

EmptyMap == [k \in {} |-> 0]

\* dict.update: entries of n replace or extend those of m
Update(m, n) ==
    [k \in (DOMAIN m) \cup (DOMAIN n) |-> IF k \in DOMAIN n THEN n[k] ELSE m[k]]

IsPrefix(s, t) ==
    /\ Len(s) <= Len(t)
    /\ \A i \in 1..Len(s) : s[i] = t[i]

Range(s) == {s[i] : i \in DOMAIN s}

----------------------------------------------------------------------------
(* state/orders.py: the persisted order-state document *)

EmptyDoc == EmptyMap

NoFile == [exists |-> FALSE, complete |-> TRUE, data |-> EmptyDoc]

\* _load_state: {} when the file is missing or does not parse as JSON
load_state(f) ==
    IF f.exists
    THEN IF f.complete THEN f.data ELSE EmptyDoc
    ELSE EmptyDoc

\* _save_state: the file as it is once json.dump has written all of it
save_state(state) == [exists |-> TRUE, complete |-> TRUE, data |-> state]

\* the entry setdefault creates: no "status" key yet
DefaultEntry ==
    [plan |-> EmptyMap, status |-> "none", fills |-> <<>>, exchange_ids |-> EmptyMap]

PutEntry(state, plan_id, entry) ==
    [q \in (DOMAIN state) \cup {plan_id} |-> IF q = plan_id THEN entry ELSE state[q]]

GetEntry(state, plan_id) ==
    IF plan_id \in DOMAIN state THEN state[plan_id] ELSE DefaultEntry

save_intent(state, plan_id, payload) ==
    PutEntry(state, plan_id,
        [plan |-> payload, status |-> "intent", fills |-> <<>>,
         exchange_ids |-> EmptyMap])

\* variant: a rejected status is not written
update_status_skip(state, plan_id, status, exchange_ids) ==
    IF status = "rejected" THEN state
    ELSE PutEntry(state, plan_id,
             [GetEntry(state, plan_id) EXCEPT
                 !.status = status,
                 !.exchange_ids = Update(@, exchange_ids)])

update_status(state, plan_id, status, exchange_ids) ==
    PutEntry(state, plan_id,
        [GetEntry(state, plan_id) EXCEPT
            !.status = status,
            !.exchange_ids = Update(@, exchange_ids)])

append_fill(state, plan_id, fill) ==
    PutEntry(state, plan_id,
        [GetEntry(state, plan_id) EXCEPT !.fills = Append(@, fill)])

\* load_open_orders: the entries whose status is not filled, canceled or rejected
load_open_orders(state) ==
    {q \in DOMAIN state : state[q].status \notin {"filled", "canceled", "rejected"}}

----------------------------------------------------------------------------
(* outputs/autotraders/phemex_client.py: PaperPhemexClient *)

\* uuid.uuid4(): an id no record has
NewOrderId(ords) == Cardinality(DOMAIN ords) + 1

\* _serialise: the order's own fields, then the record's
serialise(record) ==
    [orderID |-> record.order_id,
     idempotencyKey |-> record.idempotency_key,
     status |-> record.status,
     type |-> record.order.type,
     symbol |-> record.order.symbol,
     price |-> record.order.price]

NewRecord(order, idempotency_key, order_id) ==
    [order |-> order,
     idempotency_key |-> idempotency_key,
     order_id |-> order_id,
     status |-> IF order.type \in {"LIMIT", "STOP"} THEN "working" ELSE "filled"]

\* variant: no look-up of the idempotency key
place_always_new(ords, idm, order, idempotency_key) ==
    LET oid == NewOrderId(ords)
        rec == NewRecord(order, idempotency_key, oid)
    IN  [orders |-> Update(ords, oid :> rec),
         id_map |-> Update(idm, idempotency_key :> oid),
         response |-> serialise(rec)]

\* PaperPhemexClient.place, the body under the lock
place(ords, idm, order, idempotency_key) ==
    IF idempotency_key \in DOMAIN idm
    THEN [orders |-> ords, id_map |-> idm,
          response |-> serialise(ords[idm[idempotency_key]])]
    ELSE LET oid == NewOrderId(ords)
             rec == NewRecord(order, idempotency_key, oid)
         IN  [orders |-> Update(ords, oid :> rec),
              id_map |-> Update(idm, idempotency_key :> oid),
              response |-> serialise(rec)]

----------------------------------------------------------------------------
(* outputs/autotraders/order_builder.py *)

build_limit_post_only(symbol, price) ==
    [symbol |-> symbol, type |-> "LIMIT", price |-> price]

build_stop_entry(symbol, stop_price) ==
    [symbol |-> symbol, type |-> "STOP", price |-> stop_price]

----------------------------------------------------------------------------
(* outputs/autotraders/policy.py *)
(* A plan is [id, symbol, notional_usd, entry_price, quantity, risk_usd];  *)
(* a missing or falsy value is "" or 0.  A portfolio state is              *)
(* [daily_realized_loss_usd, open_trades, symbol_exposure, total_exposure_usd]. *)
(* A trading window "HH:MM-HH:MM" is <<HH, MM, HH, MM>>; the time of day   *)
(* is in seconds since midnight UTC.                                       *)

Abs(x) == IF x < 0 THEN -x ELSE x

\* _parse_window: the two datetime.time values, as seconds since midnight
parse_window(window) ==
    [start |-> (window[1] * 60 + window[2]) * 60,
     end   |-> (window[3] * 60 + window[4]) * 60]

within_trading_window(current_time, windows) ==
    IF windows = <<>> THEN TRUE
    ELSE \E i \in DOMAIN windows :
            LET w == parse_window(windows[i])
            IN  IF w.start <= w.end
                THEN w.start <= current_time /\ current_time <= w.end
                ELSE current_time >= w.start \/ current_time <= w.end

extract_notional(plan) ==
    IF plan.notional_usd # 0 THEN plan.notional_usd
    ELSE IF plan.entry_price # 0 /\ plan.quantity # 0
         THEN plan.entry_price * plan.quantity
         ELSE 0

extract_risk(plan) == plan.risk_usd

\* portfolio_state.get("symbol_exposure", {}).get(symbol, 0.0)
SymbolExposure(portfolio_state, symbol) ==
    IF symbol \in DOMAIN portfolio_state.symbol_exposure
    THEN portfolio_state.symbol_exposure[symbol]
    ELSE 0

\* trade_risk = _extract_risk(plan) or notional * 0.02, in hundredths
TradeRiskCents(plan) ==
    IF extract_risk(plan) # 0 THEN extract_risk(plan) * 100
    ELSE extract_notional(plan) * 2

Blocked(reason) == [allowed |-> FALSE, reason |-> reason]

\* variant: the total exposure is compared before the symbol's
check_policy_total_first(plan, portfolio_state, cfg, today, current_time) ==
    IF ~cfg.AUTOTRADE_ENABLED THEN Blocked("autotrade disabled")
    ELSE IF cfg.AUTOTRADE_MODE \notin {"paper", "live25", "live50", "live100"}
    THEN Blocked("unsupported mode")
    ELSE IF plan.symbol = "" THEN Blocked("plan missing symbol")
    ELSE IF cfg.ALLOWLIST_SYMBOLS # {} /\ plan.symbol \notin cfg.ALLOWLIST_SYMBOLS
    THEN Blocked("symbol not allowlisted")
    ELSE IF today \in cfg.BLOCKLIST_DAYS THEN Blocked("day blocked")
    ELSE IF ~within_trading_window(current_time, cfg.TRADING_WINDOWS_UTC)
    THEN Blocked("outside trading window")
    ELSE IF cfg.DAILY_RISK_USD_LIMIT # 0
            /\ Abs(portfolio_state.daily_realized_loss_usd) >= cfg.DAILY_RISK_USD_LIMIT
    THEN Blocked("daily loss limit reached")
    ELSE IF cfg.MAX_CONCURRENT_TRADES # 0
            /\ portfolio_state.open_trades >= cfg.MAX_CONCURRENT_TRADES
    THEN Blocked("max concurrent trades reached")
    ELSE IF extract_notional(plan) <= 0 THEN Blocked("plan has zero notional")
    ELSE IF cfg.TOTAL_EXPOSURE_USD_MAX # 0
            /\ portfolio_state.total_exposure_usd + extract_notional(plan)
                 > cfg.TOTAL_EXPOSURE_USD_MAX
    THEN Blocked("total exposure limit reached")
    ELSE IF cfg.PER_SYMBOL_EXPOSURE_USD_MAX # 0
            /\ SymbolExposure(portfolio_state, plan.symbol) + extract_notional(plan)
                 > cfg.PER_SYMBOL_EXPOSURE_USD_MAX
    THEN Blocked("symbol exposure > limit")
    ELSE IF cfg.PER_TRADE_RISK_USD # 0
            /\ TradeRiskCents(plan) > cfg.PER_TRADE_RISK_USD * 100
    THEN Blocked("per-trade risk exceeds limit")
    ELSE [allowed |-> TRUE, reason |-> "ok"]

check_policy(plan, portfolio_state, cfg, today, current_time) ==
    IF ~cfg.AUTOTRADE_ENABLED THEN Blocked("autotrade disabled")
    ELSE IF cfg.AUTOTRADE_MODE \notin {"paper", "live25", "live50", "live100"}
    THEN Blocked("unsupported mode")
    ELSE IF plan.symbol = "" THEN Blocked("plan missing symbol")
    ELSE IF cfg.ALLOWLIST_SYMBOLS # {} /\ plan.symbol \notin cfg.ALLOWLIST_SYMBOLS
    THEN Blocked("symbol not allowlisted")
    ELSE IF today \in cfg.BLOCKLIST_DAYS THEN Blocked("day blocked")
    ELSE IF ~within_trading_window(current_time, cfg.TRADING_WINDOWS_UTC)
    THEN Blocked("outside trading window")
    ELSE IF cfg.DAILY_RISK_USD_LIMIT # 0
            /\ Abs(portfolio_state.daily_realized_loss_usd) >= cfg.DAILY_RISK_USD_LIMIT
    THEN Blocked("daily loss limit reached")
    ELSE IF cfg.MAX_CONCURRENT_TRADES # 0
            /\ portfolio_state.open_trades >= cfg.MAX_CONCURRENT_TRADES
    THEN Blocked("max concurrent trades reached")
    ELSE IF extract_notional(plan) <= 0 THEN Blocked("plan has zero notional")
    ELSE IF cfg.PER_SYMBOL_EXPOSURE_USD_MAX # 0
            /\ SymbolExposure(portfolio_state, plan.symbol) + extract_notional(plan)
                 > cfg.PER_SYMBOL_EXPOSURE_USD_MAX
    THEN Blocked("symbol exposure > limit")
    ELSE IF cfg.TOTAL_EXPOSURE_USD_MAX # 0
            /\ portfolio_state.total_exposure_usd + extract_notional(plan)
                 > cfg.TOTAL_EXPOSURE_USD_MAX
    THEN Blocked("total exposure limit reached")
    ELSE IF cfg.PER_TRADE_RISK_USD # 0
            /\ TradeRiskCents(plan) > cfg.PER_TRADE_RISK_USD * 100
    THEN Blocked("per-trade risk exceeds limit")
    ELSE [allowed |-> TRUE, reason |-> "ok"]

----------------------------------------------------------------------------
(* Inputs of the executor specifications *)

NumRuns == 2

Runs == 1..NumRuns

MaxTime == 3

MAKER_TIMEOUT_SEC == 90

MkPlan(id, symbol, notional) ==
    [id |-> id, symbol |-> symbol, notional_usd |-> notional,
     entry_price |-> 0, quantity |-> 0, risk_usd |-> 0]

NoPlan == MkPlan("", "", 0)

RoutePlans ==
    {MkPlan("p1", "BTC/USDT", 5), MkPlan("p2", "ETH/USDT", 5)}

PlanIds == {pl.id : pl \in RoutePlans}

RoutePortfolios ==
    {[daily_realized_loss_usd |-> 0, open_trades |-> n,
      symbol_exposure |-> EmptyMap, total_exposure_usd |-> 0] : n \in {0, 3}}

MkCfg(enabled, timeout) ==
    [AUTOTRADE_ENABLED |-> enabled, AUTOTRADE_MODE |-> "paper",
     ALLOWLIST_SYMBOLS |-> {"BTC/USDT", "ETH/USDT"}, BLOCKLIST_DAYS |-> {},
     TRADING_WINDOWS_UTC |-> <<>>, DAILY_RISK_USD_LIMIT |-> 300,
     MAX_CONCURRENT_TRADES |-> 3, PER_SYMBOL_EXPOSURE_USD_MAX |-> 1500,
     TOTAL_EXPOSURE_USD_MAX |-> 4000, PER_TRADE_RISK_USD |-> 50,
     MAKER_TIMEOUT_SEC |-> timeout]

RouteCfgs == {MkCfg(e, t) : e \in BOOLEAN, t \in {0, MAKER_TIMEOUT_SEC}}

----------------------------------------------------------------------------
(* runtime/router.py, outputs/autotraders/executor.py, reporter.py,        *)
(* runtime/metrics.py, runtime/health.py                                   *)

IdleRun ==
    [pc |-> "idle", plan |-> NoPlan, timeout |-> 0,
     allowed |-> FALSE, reason |-> "", status |-> "",
     limit |-> 0, limit_err |-> FALSE, fallback |-> 0, fallback_err |-> FALSE,
     calls |-> {}, writes |-> 0, fills |-> 0,
     limit_at |-> -1, fallback_at |-> -1]

\* _plan_id: the plans routed here carry an id
plan_id_of(plan) == plan.id

\* _fallback_stop for a BUY: the entry price plus 5 basis points, in whole units
fallback_stop(entry_price) == (entry_price * 10005) \div 10000

limit_key(plan) == <<plan_id_of(plan), "limit">>

stop_key(plan) == <<plan_id_of(plan), "fallback">>

\* metrics.incr
incr(c, key) == [c EXCEPT ![key] = @ + 1]

\* reporter.log_event: one journal line
log_event(j, plan, event) == Append(j, [plan_id |-> plan.id, event |-> event])

\* reporter.record: metrics.incr("orders_recorded") and one journal line
record_line(j, plan) == Append(j, [plan_id |-> plan.id, event |-> "result"])

\* the status the document holds for plan_id once a status-writing call saved it
WriteHist(h, plan_id, f) ==
    [h EXCEPT ![plan_id] = Append(@, load_state(f)[plan_id].status)]

\* route_autotrade's choice among its three returns
route_decision(cfg, verdict) ==
    IF ~cfg.AUTOTRADE_ENABLED THEN "disabled"
    ELSE IF ~verdict.allowed THEN "blocked"
    ELSE "execute"

\* reporter.notify_status: prints, and with a notifier configured calls
\* TelegramNotifier.send_message, a method the class does not have
notify_status(configured) == IF configured THEN "AttributeError" ELSE "ok"

\* route_autotrade up to its first suspension: the two early returns, or
\* execute_plan from save_intent to the call of phemex_client.place.
\* Invocations are numbered in the order they are made.
RouteCall(r, plan, portfolio_state, cfg, today, current_time) ==
    LET verdict == check_policy(plan, portfolio_state, cfg, today, current_time)
        decision == route_decision(cfg, verdict)
        base == [run[r] EXCEPT !.plan = plan, !.allowed = verdict.allowed]
        raised == [base EXCEPT !.pc = "done", !.status = "raised",
                               !.reason = notify_status(telegram)]
    IN
    /\ run[r].pc = "idle"
    /\ \A q \in Runs : q < r => run[q].pc # "idle"
    /\ IF decision = "disabled"
       THEN /\ run' = [run EXCEPT ![r] =
                          IF notify_status(telegram) # "ok" THEN raised
                          ELSE [base EXCEPT !.pc = "done", !.status = "disabled",
                                            !.reason = "autotrade disabled"]]
            /\ UNCHANGED <<file, hist, counters>>
       ELSE IF decision = "blocked"
       THEN /\ run' = [run EXCEPT ![r] =
                          IF notify_status(telegram) # "ok" THEN raised
                          ELSE [base EXCEPT !.pc = "done", !.status = "blocked",
                                            !.reason = verdict.reason]]
            /\ UNCHANGED <<file, hist, counters>>
       ELSE /\ file' = save_state(save_intent(load_state(file), plan_id_of(plan), plan))
            /\ hist' = WriteHist(hist, plan_id_of(plan), file')
            /\ IF notify_status(telegram) # "ok"
               THEN /\ run' = [run EXCEPT ![r] = [raised EXCEPT !.writes = @ + 1]]
                    /\ UNCHANGED counters
               ELSE /\ counters' = incr(counters, "orders_attempted")
                    /\ run' = [run EXCEPT ![r] = [base EXCEPT !.pc = "limit_inflight",
                                   !.timeout = cfg.MAKER_TIMEOUT_SEC, !.writes = @ + 1]]
    /\ UNCHANGED <<journal, orders, id_map, health, now, telegram>>
    /\ UNCHANGED nonExec

\* execute_plan resumes from `await phemex_client.place(maker_order, limit_key)`
\* with the venue's response (ok) or an exception, and runs up to the sleep,
\* the call placing the fallback, or the rejected return (then reporter.record)
PlaceLimit(r, ok) ==
    LET plan == run[r].plan
        pid == plan_id_of(plan)
        res == place(orders, id_map, build_limit_post_only(plan.symbol, plan.entry_price), limit_key(plan))
        oid == res.response.orderID
    IN
    /\ run[r].pc = "limit_inflight"
    /\ IF ~ok
       THEN /\ counters' = incr(incr(counters, "orders_failed"), "orders_recorded")
            /\ health' = [health EXCEPT !.errors = @ + 1]
            /\ journal' = record_line(log_event(journal, plan, "error"), plan)
            /\ file' = save_state(update_status(load_state(file), pid, "rejected", EmptyMap))
            /\ hist' = WriteHist(hist, pid, file')
            /\ run' = [run EXCEPT ![r].pc = "done", ![r].status = "rejected",
                                  ![r].limit_err = TRUE,
                                  ![r].calls = @ \cup {"limit"},
                                  ![r].writes = @ + 1]
            /\ UNCHANGED <<orders, id_map>>
       ELSE /\ orders' = res.orders
            /\ id_map' = res.id_map
            /\ file' = save_state(update_status(load_state(file), pid, "working",
                                      "limit" :> oid))
            /\ hist' = WriteHist(hist, pid, file')
            /\ journal' = log_event(journal, plan, "limit_placed")
            /\ health' = [health EXCEPT !.success = @ + 1]
            /\ run' = [run EXCEPT ![r].limit = oid,
                                  ![r].calls = @ \cup {"limit"},
                                  ![r].limit_at = now,
                                  ![r].writes = @ + 1,
                                  ![r].pc = IF run[r].timeout # 0 THEN "sleep"
                                            ELSE "fallback_inflight",
                                  ![r].fallback_at = IF run[r].timeout # 0 THEN @
                                                     ELSE now]
            /\ UNCHANGED counters
    /\ UNCHANGED <<now, telegram>>
    /\ UNCHANGED nonExec

\* `await sleeper(0)` (or asyncio.sleep(0)) returns; the fallback is submitted
SleepDone(r) ==
    /\ run[r].pc = "sleep"
    /\ run' = [run EXCEPT ![r].pc = "fallback_inflight", ![r].fallback_at = now]
    /\ UNCHANGED <<file, journal, orders, id_map, counters, health, now, hist, telegram>>
    /\ UNCHANGED nonExec

\* execute_plan resumes from `await phemex_client.place(stop_order, stop_key)`
\* and runs to its return, then reporter.record
PlaceFallback(r, ok) ==
    LET plan == run[r].plan
        pid == plan_id_of(plan)
        res == place(orders, id_map, build_stop_entry(plan.symbol, fallback_stop(plan.entry_price)), stop_key(plan))
        oid == res.response.orderID
        ids == IF ok THEN ("limit" :> run[r].limit) @@ ("fallback" :> oid)
               ELSE "limit" :> run[r].limit
        fill == [qty |-> plan.quantity, timestamp |-> now]
        j1 == IF ok THEN log_event(journal, plan, "fallback_placed")
              ELSE log_event(journal, plan, "fallback_error")
        c1 == IF ok THEN counters ELSE incr(counters, "orders_failed")
    IN
    /\ run[r].pc = "fallback_inflight"
    /\ IF ok
       THEN orders' = res.orders /\ id_map' = res.id_map
       ELSE UNCHANGED <<orders, id_map>>
    /\ file' = save_state(update_status(
                   load_state(save_state(append_fill(load_state(file), pid, fill))),
                   pid, "filled", ids))
    /\ hist' = WriteHist(hist, pid, file')
    /\ journal' = record_line(log_event(j1, plan, "plan_completed"), plan)
    /\ counters' = incr(incr(c1, "orders_filled"), "orders_recorded")
    /\ run' = [run EXCEPT ![r].pc = "done", ![r].status = "filled",
                          ![r].fallback = IF ok THEN oid ELSE 0,
                          ![r].fallback_err = ~ok,
                          ![r].calls = @ \cup {"fallback"},
                          ![r].writes = @ + 2, ![r].fills = @ + 1]
    /\ UNCHANGED <<health, now, telegram>>
    /\ UNCHANGED nonExec

\* wall-clock time passes
Tick ==
    /\ now < MaxTime
    /\ now' = now + 1
    /\ UNCHANGED <<file, journal, orders, id_map, counters, health, run, hist, telegram>>
    /\ UNCHANGED nonExec

MetricKeys == {"orders_attempted", "orders_failed", "orders_filled", "orders_recorded"}

InitExec ==
    /\ file = NoFile
    /\ journal = <<>>
    /\ orders = EmptyMap
    /\ id_map = EmptyMap
    /\ counters = [k \in MetricKeys |-> 0]
    /\ health = [success |-> 0, errors |-> 0]
    /\ now = 0
    /\ run = [r \in Runs |-> IdleRun]
    /\ hist = [p \in PlanIds |-> <<>>]


----------------------------------------------------------------------------
(* PaperPhemexClient called directly by several coroutines *)

NumCallers == 2

Callers == 1..NumCallers

MaxPlaceCalls == 2

VenueKeys == {<<"p1", "limit">>, <<"p1", "fallback">>}

VenueOrderInputs ==
    {build_limit_post_only("BTC/USDT", 5),
     [symbol |-> "BTC/USDT", type |-> "MARKET", price |-> 5]}

IdleCaller == [pc |-> "idle", op |-> "", key |-> <<>>, order |-> 0]

InitVenueOnly ==
    /\ lock = 0
    /\ caller = [c \in Callers |-> IdleCaller]
    /\ returned = [k \in VenueKeys |-> {}]
    /\ nplace = [k \in VenueKeys |-> 0]

\* a coroutine calls place and reaches `async with self._lock`
CallPlace(c, order, key) ==
    /\ caller[c].pc = "idle"
    /\ nplace[key] + Cardinality({d \in Callers : caller[d].op = "place"
                                     /\ caller[d].key = key}) < MaxPlaceCalls
    /\ caller' = [caller EXCEPT ![c] = [IdleCaller EXCEPT !.pc = "wait_lock",
                      !.op = "place", !.key = key, !.order = order]]
    /\ UNCHANGED <<orders, id_map, lock, returned, nplace>>
    /\ UNCHANGED nonVenue

\* asyncio.Lock.acquire
Acquire(c) ==
    /\ caller[c].pc = "wait_lock"
    /\ lock = 0
    /\ lock' = c
    /\ caller' = [caller EXCEPT ![c].pc = "locked"]
    /\ UNCHANGED <<orders, id_map, returned, nplace>>
    /\ UNCHANGED nonVenue

\* the body of the `async with` block, and the release of the lock
PlaceBody(c) ==
    LET res == place(orders, id_map, caller[c].order, caller[c].key)
    IN
    /\ caller[c].pc = "locked" /\ caller[c].op = "place"
    /\ orders' = res.orders
    /\ id_map' = res.id_map
    /\ returned' = [returned EXCEPT ![caller[c].key] = @ \cup {res.response.orderID}]
    /\ nplace' = [nplace EXCEPT ![caller[c].key] = @ + 1]
    /\ lock' = 0
    /\ caller' = [caller EXCEPT ![c] = IdleCaller]
    /\ UNCHANGED nonVenue

----------------------------------------------------------------------------
(* state/orders.py called by several processes that share the file.        *)
(* Each writer is an executor working one plan of its own: it makes the    *)
(* calls execute_plan makes, in execute_plan's order.  A call reads the    *)
(* file, changes its copy, opens the file for writing (which empties it)   *)
(* and dumps the copy.                                                     *)

NumWriters == 2

Writers == 1..NumWriters

\* the plan_id of writer w
WriterPlan(w) == <<"plan", w>>

\* the calls of execute_plan that touch the document, in order
WriterCalls == <<"save_intent", "update_status_working", "append_fill",
                 "update_status_filled">>

\* the document after call number i of writer w on a document read as state
ApplyCall(state, w, i) ==
    LET pid == WriterPlan(w)
    IN  CASE WriterCalls[i] = "save_intent" ->
                 save_intent(state, pid, MkPlan(pid, "BTC/USDT", 5))
          [] WriterCalls[i] = "update_status_working" ->
                 update_status(state, pid, "working", "limit" :> (2 * w - 1))
          [] WriterCalls[i] = "append_fill" ->
                 append_fill(state, pid, [qty |-> 0, timestamp |-> 0])
          [] WriterCalls[i] = "update_status_filled" ->
                 update_status(state, pid, "filled",
                     ("limit" :> (2 * w - 1)) @@ ("fallback" :> (2 * w)))

IdleWorker == [pc |-> "load", call |-> 1, state |-> EmptyDoc]

InitWriterOnly ==
    /\ worker = [w \in Writers |-> IdleWorker]
    /\ seenPartial = FALSE

\* _load_state, then the change the call makes to what it read
LoadAndChange(w) ==
    /\ worker[w].pc = "load"
    /\ worker' = [worker EXCEPT ![w].pc = "open",
                                ![w].state = ApplyCall(load_state(file), w, worker[w].call)]
    /\ UNCHANGED <<file, seenPartial>>
    /\ UNCHANGED nonWriter

\* _save_state: open(_STATE_PATH, "w") truncates the file
OpenForWrite(w) ==
    /\ worker[w].pc = "open"
    /\ file' = [exists |-> TRUE, complete |-> FALSE, data |-> EmptyDoc]
    /\ worker' = [worker EXCEPT ![w].pc = "dump"]
    /\ UNCHANGED seenPartial
    /\ UNCHANGED nonWriter

\* _save_state: json.dump and the close of the file; the call returns
Dump(w) ==
    /\ worker[w].pc = "dump"
    /\ file' = save_state(worker[w].state)
    /\ worker' = [worker EXCEPT ![w] =
                     IF worker[w].call = Len(WriterCalls)
                     THEN [pc |-> "done", call |-> worker[w].call, state |-> EmptyDoc]
                     ELSE [pc |-> "load", call |-> worker[w].call + 1, state |-> EmptyDoc]]
    /\ UNCHANGED seenPartial
    /\ UNCHANGED nonWriter

\* another process opens and reads the file (load_open_orders)
ReaderLoad ==
    /\ seenPartial' = (seenPartial \/ (file.exists /\ ~file.complete))
    /\ UNCHANGED <<file, worker>>
    /\ UNCHANGED nonWriter

\* one invocation, with the clock running
----------------------------------------------------------------------------
(* utils/cache.py: TTLCache.  datetime values are whole seconds; the ttl    *)
(* argument is <<>> for None and <<n>> for n.  Every method runs under the  *)
(* cache's RLock, so each is one step.                                      *)

DefaultTtl == 2

CacheKeys == {"k1", "k2"}

CacheValues == {"a", "b"}

TtlInputs == {<<>>, <<0>>, <<1>>, <<2>>}

Absent == [found |-> FALSE, value |-> ""]

\* variant: an entry is still served at the second it expires
cache_get_late(st, key, t) ==
    IF key \notin DOMAIN st THEN [store |-> st, result |-> Absent]
    ELSE IF st[key].expires_at < t
         THEN [store |-> [q \in DOMAIN st \ {key} |-> st[q]], result |-> Absent]
         ELSE [store |-> st, result |-> [found |-> TRUE, value |-> st[key].value]]

\* TTLCache.get: the store it leaves and the Optional it returns
cache_get(st, key, t) ==
    IF key \notin DOMAIN st THEN [store |-> st, result |-> Absent]
    ELSE IF st[key].expires_at <= t
         THEN [store |-> [q \in DOMAIN st \ {key} |-> st[q]], result |-> Absent]
         ELSE [store |-> st, result |-> [found |-> TRUE, value |-> st[key].value]]

\* the ttl_seconds that set works with
ttl_seconds_of(ttl, default_ttl) == IF ttl = <<>> THEN default_ttl ELSE ttl[1]

\* TTLCache.set: the store it leaves, or the ValueError
cache_set(st, key, value, ttl, default_ttl, t) ==
    IF ttl_seconds_of(ttl, default_ttl) <= 0 THEN [store |-> st, raised |-> TRUE]
    ELSE [store |-> [q \in DOMAIN st \cup {key} |->
                        IF q = key
                        THEN [value |-> value,
                              expires_at |-> t + ttl_seconds_of(ttl, default_ttl)]
                        ELSE st[q]],
          raised |-> FALSE]

\* TTLCache.pop: the store it leaves and the Optional it returns
cache_pop(st, key) ==
    IF key \notin DOMAIN st THEN [store |-> st, result |-> Absent]
    ELSE [store |-> [q \in DOMAIN st \ {key} |-> st[q]],
          result |-> [found |-> TRUE, value |-> st[key].value]]

NoRet == [op |-> "", key |-> "", result |-> Absent, at |-> 0]

NoMutation == [kind |-> "", value |-> "", at |-> 0, ttl |-> 0]

InitCacheOnly ==
    /\ store = EmptyMap
    /\ ret = NoRet
    /\ last = [k \in CacheKeys |-> NoMutation]

CacheSet(key, value, ttl) ==
    LET res == cache_set(store, key, value, ttl, DefaultTtl, now)
    IN
    /\ store' = res.store
    /\ last' = IF res.raised THEN last
               ELSE [last EXCEPT ![key] = [kind |-> "set", value |-> value, at |-> now,
                                           ttl |-> ttl_seconds_of(ttl, DefaultTtl)]]
    /\ ret' = NoRet
    /\ UNCHANGED now
    /\ UNCHANGED nonCache

CacheGet(key) ==
    LET res == cache_get(store, key, now)
    IN
    /\ store' = res.store
    /\ ret' = [op |-> "get", key |-> key, result |-> res.result, at |-> now]
    /\ UNCHANGED <<last, now>>
    /\ UNCHANGED nonCache

CachePop(key) ==
    /\ store' = cache_pop(store, key).store
    /\ last' = [last EXCEPT ![key] = [NoMutation EXCEPT !.kind = "pop", !.at = now]]
    /\ ret' = NoRet
    /\ UNCHANGED now
    /\ UNCHANGED nonCache

CacheClear ==
    /\ store' = EmptyMap
    /\ last' = [k \in CacheKeys |-> [NoMutation EXCEPT !.kind = "clear", !.at = now]]
    /\ ret' = NoRet
    /\ UNCHANGED now
    /\ UNCHANGED nonCache

----------------------------------------------------------------------------
(* check_policy called on its own, over plans, portfolio states and        *)
(* configurations that pass and fail each of its checks                    *)

PolicyToday == "2025-12-25"

PolicySwitches ==
    {<<TRUE, "paper">>, <<FALSE, "paper">>, <<TRUE, "turbo">>}

\* <<plan symbol, ALLOWLIST_SYMBOLS>>
PolicySymbols ==
    {<<"", {}>>, <<"BTC/USDT", {"BTC/USDT"}>>, <<"DOGE/USDT", {"BTC/USDT"}>>,
     <<"DOGE/USDT", {}>>}

PolicyBlocklists == {{}, {PolicyToday}}

\* <<TRADING_WINDOWS_UTC, seconds since midnight>>: no window, "00:01-00:02"
\* at 00:01:00 and at 00:02:01, "23:00-00:01" at 23:00:00
PolicyWindows ==
    {<<<<>>, 60>>, <<<< <<0, 1, 0, 2>> >>, 60>>, <<<< <<0, 1, 0, 2>> >>, 121>>,
     <<<< <<23, 0, 0, 1>> >>, 82800>>}

\* <<daily_realized_loss_usd, DAILY_RISK_USD_LIMIT>>
PolicyLosses == {<<0, 300>>, <<-300, 300>>, <<300, 0>>}

\* <<open_trades, MAX_CONCURRENT_TRADES>>
PolicyOpenTrades == {<<0, 3>>, <<3, 3>>, <<3, 0>>}

\* <<notional_usd, entry_price, quantity>>
PolicyNotionals == {<<60, 0, 0>>, <<0, 0, 0>>, <<0, 20, 3>>}

\* <<exposure of the plan's symbol, PER_SYMBOL_EXPOSURE_USD_MAX>>
PolicySymbolExposures == {<<0, 100>>, <<50, 100>>, <<50, 0>>}

\* <<total_exposure_usd, TOTAL_EXPOSURE_USD_MAX>>
PolicyTotalExposures == {<<0, 100>>, <<50, 100>>, <<50, 0>>}

\* <<risk_usd, PER_TRADE_RISK_USD>>
PolicyRisks == {<<0, 50>>, <<51, 50>>, <<0, 1>>, <<51, 0>>}

NoPolicyCall ==
    [plan |-> NoPlan, portfolio_state |-> EmptyMap, cfg |-> EmptyMap,
     today |-> "", current_time |-> 0, done |-> FALSE,
     out |-> [allowed |-> FALSE, reason |-> ""]]

PolicyCalls ==
    {[plan |-> [id |-> "p1", symbol |-> sy[1], notional_usd |-> no[1],
                entry_price |-> no[2], quantity |-> no[3], risk_usd |-> ri[1]],
      portfolio_state |->
          [daily_realized_loss_usd |-> lo[1], open_trades |-> ot[1],
           symbol_exposure |-> IF sy[1] = "" THEN EmptyMap ELSE sy[1] :> se[1],
           total_exposure_usd |-> te[1]],
      cfg |-> [AUTOTRADE_ENABLED |-> sw[1], AUTOTRADE_MODE |-> sw[2],
               ALLOWLIST_SYMBOLS |-> sy[2], BLOCKLIST_DAYS |-> bl,
               TRADING_WINDOWS_UTC |-> wi[1], DAILY_RISK_USD_LIMIT |-> lo[2],
               MAX_CONCURRENT_TRADES |-> ot[2],
               PER_SYMBOL_EXPOSURE_USD_MAX |-> se[2],
               TOTAL_EXPOSURE_USD_MAX |-> te[2], PER_TRADE_RISK_USD |-> ri[2],
               MAKER_TIMEOUT_SEC |-> MAKER_TIMEOUT_SEC],
      today |-> PolicyToday, current_time |-> wi[2], done |-> FALSE,
      out |-> [allowed |-> FALSE, reason |-> ""]] :
        sw \in PolicySwitches, sy \in PolicySymbols, bl \in PolicyBlocklists,
        wi \in PolicyWindows, lo \in PolicyLosses, ot \in PolicyOpenTrades,
        no \in PolicyNotionals, se \in PolicySymbolExposures,
        te \in PolicyTotalExposures, ri \in PolicyRisks}

\* check_policy(plan, portfolio_state, cfg) returns
CheckPolicy ==
    /\ ~pol.done
    /\ pol' = [pol EXCEPT !.done = TRUE,
                 !.out = check_policy(pol.plan, pol.portfolio_state, pol.cfg,
                                      pol.today, pol.current_time)]
    /\ UNCHANGED nonPolicy

----------------------------------------------------------------------------
(* utils/cache.py: TTLCache called from several threads.  A method waits    *)
(* for the RLock, runs its body holding it, and releases it on return; get  *)
(* is split at the point between reading the entry and checking its expiry. *)

NumThreads == 2

Threads == 1..NumThreads

\* the threads contend for one key, set with an explicit ttl
ThreadKeys == {"k1"}

ThreadTtls == {<<1>>}

NoEntry == [value |-> "", expires_at |-> 0]

IdleThread == [pc |-> "idle", op |-> "", key |-> "", value |-> "", ttl |-> <<>>,
               entry |-> NoEntry]

InitThreadOnly ==
    /\ rlock = 0
    /\ thr = [t \in Threads |-> IdleThread]
    /\ stored = [k \in CacheKeys |-> {}]
    /\ audit = [foreign |-> FALSE, lostFresh |-> FALSE]

\* variant: the lock is taken whoever holds it
lock_free_always(l) == TRUE

\* RLock.acquire by a thread that does not hold it: blocks until it is free
lock_free(l) == l = 0

\* a thread calls get, pop or clear and reaches `with self._lock`
ThreadCall(t, op, key) ==
    /\ thr[t].pc = "idle"
    /\ thr' = [thr EXCEPT ![t] = [IdleThread EXCEPT !.pc = "wait", !.op = op,
                                                    !.key = key]]
    /\ UNCHANGED <<rlock, stored, audit, store, now>>
    /\ UNCHANGED nonThread

\* a thread calls set with a valid ttl and reaches `with self._lock`
ThreadCallSet(t, key, value, ttl) ==
    /\ thr[t].pc = "idle"
    /\ thr' = [thr EXCEPT ![t] = [IdleThread EXCEPT !.pc = "wait", !.op = "set",
                                      !.key = key, !.value = value, !.ttl = ttl]]
    /\ UNCHANGED <<rlock, stored, audit, store, now>>
    /\ UNCHANGED nonThread

\* `with self._lock` is entered
ThreadAcquire(t) ==
    /\ thr[t].pc = "wait"
    /\ lock_free(rlock)
    /\ rlock' = t
    /\ thr' = [thr EXCEPT ![t].pc = "in"]
    /\ UNCHANGED <<stored, audit, store, now>>
    /\ UNCHANGED nonThread

\* get: entry = self._store.get(key); return None when there is none
GetRead(t) ==
    /\ thr[t].pc = "in" /\ thr[t].op = "get"
    /\ IF thr[t].key \in DOMAIN store
       THEN /\ thr' = [thr EXCEPT ![t].pc = "read", ![t].entry = store[thr[t].key]]
            /\ UNCHANGED rlock
       ELSE /\ thr' = [thr EXCEPT ![t] = IdleThread]
            /\ rlock' = 0
    /\ UNCHANGED <<stored, audit, store, now>>
    /\ UNCHANGED nonThread

\* get: the expiry check, the lazy removal, the return
GetCheck(t) ==
    LET key == thr[t].key
        expired == thr[t].entry.expires_at <= now
    IN
    /\ thr[t].pc = "read"
    /\ store' = IF expired THEN [q \in DOMAIN store \ {key} |-> store[q]] ELSE store
    /\ audit' = IF expired
                THEN [audit EXCEPT !.lostFresh =
                         @ \/ (key \in DOMAIN store /\ store[key].expires_at > now)]
                ELSE [audit EXCEPT !.foreign = @ \/ thr[t].entry.value \notin stored[key]]
    /\ thr' = [thr EXCEPT ![t] = IdleThread]
    /\ rlock' = 0
    /\ UNCHANGED <<stored, now>>
    /\ UNCHANGED nonThread

\* set: the body under the lock
SetBody(t) ==
    /\ thr[t].pc = "in" /\ thr[t].op = "set"
    /\ store' = cache_set(store, thr[t].key, thr[t].value, thr[t].ttl, DefaultTtl, now).store
    /\ stored' = [stored EXCEPT ![thr[t].key] = @ \cup {thr[t].value}]
    /\ thr' = [thr EXCEPT ![t] = IdleThread]
    /\ rlock' = 0
    /\ UNCHANGED <<audit, now>>
    /\ UNCHANGED nonThread

\* pop: the body under the lock
PopBody(t) ==
    /\ thr[t].pc = "in" /\ thr[t].op = "pop"
    /\ store' = cache_pop(store, thr[t].key).store
    /\ thr' = [thr EXCEPT ![t] = IdleThread]
    /\ rlock' = 0
    /\ UNCHANGED <<stored, audit, now>>
    /\ UNCHANGED nonThread

\* clear: the body under the lock
ClearBody(t) ==
    /\ thr[t].pc = "in" /\ thr[t].op = "clear"
    /\ store' = EmptyMap
    /\ thr' = [thr EXCEPT ![t] = IdleThread]
    /\ rlock' = 0
    /\ UNCHANGED <<stored, audit, now>>
    /\ UNCHANGED nonThread

\* the clock moves while threads are inside the cache
ThreadTick ==
    /\ now < MaxTime
    /\ now' = now + 1
    /\ UNCHANGED <<rlock, thr, stored, audit, store>>
    /\ UNCHANGED nonThread

----------------------------------------------------------------------------
(* exchanges/ccxt_adapter.py: _request_with_retries and _classify_exception *)

MaxRetries == 3

\* self._max_retries = max(1, max_retries)
RetryBudgets == 1..MaxRetries

\* ccxt's exception classes, each with the classes it inherits from
CcxtBases ==
    [RateLimitExceeded    |-> {"RateLimitExceeded", "NetworkError", "BaseError"},
     NetworkError         |-> {"NetworkError", "BaseError"},
     RequestTimeout       |-> {"RequestTimeout", "NetworkError", "BaseError"},
     ExchangeNotAvailable |-> {"ExchangeNotAvailable", "NetworkError", "BaseError"},
     AuthenticationError  |-> {"AuthenticationError", "BaseError"},
     BadSymbol            |-> {"BadSymbol", "BaseError"},
     BadRequest           |-> {"BadRequest", "BaseError"},
     RateLimitError       |-> {"RateLimitError", "ExchangeError"},
     ValueError           |-> {"ValueError"}]

isinstance(exc, cls) == cls \in CcxtBases[exc.cls]

\* an exception the venue function raises: its class, whether it carries
\* http_status or status 429, whether its message holds "429" or "rate limit"
MkExc(cls, status, message) == [cls |-> cls, status |-> status, message |-> message]

VenueErrors ==
    {MkExc(c, FALSE, FALSE) : c \in DOMAIN CcxtBases}
        \cup {MkExc("AuthenticationError", TRUE, FALSE), MkExc("BadSymbol", FALSE, TRUE)}

\* what a call that raises nothing leaves in the record of calls
OkResponse == MkExc("ok", FALSE, FALSE)

\* variant: every exception is worth another attempt
classify_exception_always_retry(exc) ==
    [should_retry |-> TRUE, error |-> "ExchangeError"]

\* _classify_exception: (should_retry, class of the error to raise)
classify_exception(exc) ==
    IF isinstance(exc, "RateLimitError")
    THEN [should_retry |-> TRUE, error |-> "RateLimitError"]
    ELSE IF isinstance(exc, "RateLimitExceeded")
    THEN [should_retry |-> TRUE, error |-> "RateLimitError"]
    ELSE IF exc.status
    THEN [should_retry |-> TRUE, error |-> "RateLimitError"]
    ELSE IF exc.message
    THEN [should_retry |-> TRUE, error |-> "RateLimitError"]
    ELSE IF isinstance(exc, "NetworkError") \/ isinstance(exc, "RequestTimeout")
            \/ isinstance(exc, "ExchangeNotAvailable")
    THEN [should_retry |-> TRUE, error |-> "ExchangeError"]
    ELSE IF isinstance(exc, "BaseError")
    THEN [should_retry |-> FALSE, error |-> "ExchangeError"]
    ELSE [should_retry |-> TRUE, error |-> "ExchangeError"]

IdleRequest == [pc |-> "idle", max_retries |-> 1, attempt |-> 0, calls |-> <<>>,
                raised |-> ""]

InitRetryOnly == req = IdleRequest

\* an adapter method enters _request_with_retries: attempt = 0
RequestCall(n) ==
    /\ req.pc = "idle"
    /\ req' = [IdleRequest EXCEPT !.pc = "try", !.max_retries = n]
    /\ UNCHANGED nonRetry

\* func(*args, **kwargs) returns: the loop returns its response
VenueReturns ==
    /\ req.pc = "try"
    /\ req' = [req EXCEPT !.pc = "returned", !.calls = Append(@, OkResponse)]
    /\ UNCHANGED nonRetry

\* func(*args, **kwargs) raises exc: the except branch up to raise or sleep
VenueRaises(exc) ==
    LET attempt == req.attempt + 1
        c == classify_exception(exc)
    IN
    /\ req.pc = "try"
    /\ IF ~c.should_retry \/ attempt >= req.max_retries
       THEN req' = [req EXCEPT !.pc = "raised", !.attempt = attempt,
                               !.calls = Append(@, exc), !.raised = c.error]
       ELSE req' = [req EXCEPT !.pc = "sleep", !.attempt = attempt,
                               !.calls = Append(@, exc)]
    /\ UNCHANGED nonRetry

\* time.sleep(sleep_for) returns and the loop goes round
SleepReturns ==
    /\ req.pc = "sleep"
    /\ req' = [req EXCEPT !.pc = "try"]
    /\ UNCHANGED nonRetry

----------------------------------------------------------------------------
(* quality/gates.py: QualityGates.evaluate.  Floats are modelled as exact   *)
(* fractions <<numerator, denominator>> in lowest terms, denominator 0 for  *)
(* float("inf").                                                            *)

RECURSIVE GCD(_, _)
GCD(a, b) == IF b = 0 THEN a ELSE GCD(b, a % b)

Frac(n, d) ==
    IF d = 0 THEN <<1, 0>>
    ELSE LET g == GCD(Abs(n), Abs(d))
             s == IF d < 0 THEN -1 ELSE 1
         IN  <<(s * n) \div g, (s * d) \div g>>

Whole(n) == <<n, 1>>

Inf == <<1, 0>>

FAdd(x, y) == Frac(x[1] * y[2] + y[1] * x[2], x[2] * y[2])

FSub(x, y) == Frac(x[1] * y[2] - y[1] * x[2], x[2] * y[2])

FMul(x, y) == Frac(x[1] * y[1], x[2] * y[2])

FDiv(x, y) == Frac(x[1] * y[2], x[2] * y[1])

FLess(x, y) == x # y /\ (y = Inf \/ (x # Inf /\ x[1] * y[2] < y[1] * x[2]))

FLeq(x, y) == x = y \/ FLess(x, y)

FMin(x, y) == IF FLess(y, x) THEN y ELSE x

FMax(x, y) == IF FLess(x, y) THEN y ELSE x

\* QualityGatesConfig defaults
DEFAULT_WEIGHTS ==
    [tf_align |-> 25, ob_quality |-> 15, fvg_presence |-> 10, bos_choch |-> 15,
     freshness |-> 10, rr_strength |-> 10, atr_sweetspot |-> 10, regime_bias |-> 5]

QualityGatesConfig(max_setups) ==
    [min_rr |-> Whole(2), entry_distance_pct |-> <<Frac(1, 2), Whole(5)>>,
     freshness_half_life_min |-> 30, max_setup_age_min |-> Whole(90),
     min_volume_usd |-> Whole(100000), max_spread_bps |-> Whole(20),
     min_confluence |-> 3, min_score |-> Whole(60), max_setups |-> max_setups,
     confluence_weights |-> DEFAULT_WEIGHTS]

\* SetupCandidate.confluence_count: structure_flags holds the flags that are True
confluence_count(candidate) == Cardinality(candidate.structure_flags)

compute_rr(entry, stop, tp1, direction) ==
    LET risk == IF direction = "LONG" THEN entry - stop
                ELSE IF direction = "SHORT" THEN stop - entry ELSE 0
        reward == IF direction = "LONG" THEN tp1 - entry
                  ELSE IF direction = "SHORT" THEN entry - tp1 ELSE 0
    IN  IF risk <= 0 \/ reward <= 0 THEN Whole(0) ELSE Frac(reward, risk)

compute_entry_distance_pct(price, entry) ==
    IF price <= 0 THEN Inf ELSE Frac(Abs(entry - price) * 100, price)

\* (ask - bid) / ((ask + bid) / 2) * 10000
compute_spread_bps(bid, ask) ==
    IF bid <= 0 \/ ask <= 0 \/ ask <= bid THEN Inf
    ELSE Frac((ask - bid) * 20000, ask + bid)

RECURSIVE HalfPower(_)
HalfPower(k) == IF k = 0 THEN Whole(1) ELSE FMul(Frac(1, 2), HalfPower(k - 1))

\* 0.5 ** (minutes_old / half_life), for ages that are whole half-lives
compute_freshness_weight(minutes_old, half_life) ==
    HalfPower((IF minutes_old < 0 THEN 0 ELSE minutes_old) \div half_life)

clip(value, lower, upper) == FMax(lower, FMin(upper, value))

f_bool(flag) == IF flag THEN Whole(1) ELSE Whole(0)

f_rr(rr) == IF FLeq(rr, Whole(0)) THEN Whole(0) ELSE FMin(FDiv(rr, Whole(3)), Whole(1))

\* the sweet spot of each regime, in tenths of a percent
SweetSpot(regime) ==
    IF regime = "RANGING" THEN <<5, 15>>
    ELSE IF regime = "VOLATILE" THEN <<20, 50>>
    ELSE <<10, 30>>

\* atr_pct comes in tenths of a percent
f_atr_band(atr_pct, regime) ==
    LET sweet_low == SweetSpot(regime)[1]
        sweet_high == SweetSpot(regime)[2]
        span == sweet_high - sweet_low
    IN  IF atr_pct <= 0 THEN Whole(0)
        ELSE IF atr_pct < sweet_low
        THEN clip(FSub(Whole(1), Frac(sweet_low - atr_pct, span)), Whole(0), Whole(1))
        ELSE IF atr_pct > sweet_high
        THEN clip(FSub(Whole(1), Frac(atr_pct - sweet_high, span)), Whole(0), Whole(1))
        ELSE clip(FSub(Whole(1), Frac(Abs(2 * atr_pct - (sweet_low + sweet_high)), span)),
                  Whole(0), Whole(1))

f_regime(regime) ==
    IF regime = "TRENDING" THEN Whole(1)
    ELSE IF regime = "VOLATILE" THEN Frac(4, 5)
    ELSE Frac(3, 5)

\* `candidate.ob_quality or 0.0`, None being <<>>
or_zero(q) == IF q = <<>> THEN Whole(0) ELSE q

calc_score(candidate, rr, w_fresh, weights) ==
    LET flags == candidate.structure_flags
        term(w, f) == FMul(Whole(w), f)
        score ==
            FAdd(term(weights.tf_align, f_bool("htf_trend_agrees" \in flags)),
            FAdd(term(weights.ob_quality, or_zero(candidate.ob_quality)),
            FAdd(term(weights.fvg_presence, f_bool("has_fvg" \in flags)),
            FAdd(term(weights.bos_choch, f_bool("bos_in_favor" \in flags)),
            FAdd(term(weights.freshness, w_fresh),
            FAdd(term(weights.rr_strength, f_rr(rr)),
            FAdd(term(weights.atr_sweetspot, f_atr_band(candidate.atr_pct, candidate.regime)),
                 term(weights.regime_bias, f_regime(candidate.regime)))))))))
    IN  clip(score, Whole(0), Whole(100))

\* str.lower of the exchange names in use
Lower(s) == IF s = "Phemex" THEN "phemex" ELSE s

\* variant: the listing is never looked at
listing_required_never(exchange) == FALSE

\* self.exchange and self.exchange.lower() == "phemex"
listing_required(exchange) == exchange # "" /\ Lower(exchange) = "phemex"

\* the decision evaluate builds for a candidate, with the values it computes
GateDecision(candidate, config) ==
    LET rr == compute_rr(candidate.entry_near, candidate.entry_stop,
                         candidate.entry_tp1, candidate.direction)
        w_fresh == compute_freshness_weight(candidate.minutes_old,
                                            config.freshness_half_life_min)
    IN  [candidate |-> candidate,
         rr |-> rr,
         entry_distance_pct |->
             compute_entry_distance_pct(candidate.price_current, candidate.entry_near),
         spread_bps |-> compute_spread_bps(candidate.orderbook_bid, candidate.orderbook_ask),
         freshness_weight |-> w_fresh,
         confluence |-> confluence_count(candidate),
         score |-> calc_score(candidate, rr, w_fresh, config.confluence_weights)]

\* the body of evaluate's loop: TRUE when no `continue` is taken
approves(candidate, config, exchange) ==
    LET d == GateDecision(candidate, config)
    IN  /\ ~(listing_required(exchange) /\ ~candidate.phemex_listed)
        /\ ~FLess(d.rr, config.min_rr)
        /\ ~FLess(d.entry_distance_pct, config.entry_distance_pct[1])
        /\ ~FLess(config.entry_distance_pct[2], d.entry_distance_pct)
        /\ ~FLess(config.max_setup_age_min, Whole(candidate.minutes_old))
        /\ ~FLess(Whole(candidate.volume_usd_24h), config.min_volume_usd)
        /\ ~FLess(config.max_spread_bps, d.spread_bps)
        /\ ~(d.confluence < config.min_confluence)
        /\ ~FLess(d.score, config.min_score)

RECURSIVE approved_of(_, _, _)
approved_of(candidates, config, exchange) ==
    IF candidates = <<>> THEN <<>>
    ELSE LET rest == approved_of(Tail(candidates), config, exchange)
         IN  IF approves(Head(candidates), config, exchange)
             THEN <<GateDecision(Head(candidates), config)>> \o rest
             ELSE rest

\* variant: a decision goes in front of the decisions of equal score
insert_desc_before_equal(d, sorted) ==
    LET RECURSIVE ins(_)
        ins(s) == IF s = <<>> THEN <<d>>
                  ELSE IF FLess(d.score, Head(s).score) THEN <<Head(s)>> \o ins(Tail(s))
                  ELSE <<d>> \o s
    IN  ins(sorted)

\* list.sort(key=score, reverse=True) is stable: a decision goes behind
\* the decisions of equal or higher score that came before it
insert_desc(d, sorted) ==
    LET RECURSIVE ins(_)
        ins(s) == IF s = <<>> THEN <<d>>
                  ELSE IF FLeq(d.score, Head(s).score) THEN <<Head(s)>> \o ins(Tail(s))
                  ELSE <<d>> \o s
    IN  ins(sorted)

RECURSIVE sort_by_score_desc(_)
sort_by_score_desc(ds) ==
    IF ds = <<>> THEN <<>>
    ELSE insert_desc(ds[Len(ds)], sort_by_score_desc(SubSeq(ds, 1, Len(ds) - 1)))

\* approved[: max_setups] for max_setups >= 0
take(ds, n) == SubSeq(ds, 1, IF n < Len(ds) THEN n ELSE Len(ds))

evaluate(candidates, config, exchange) ==
    take(sort_by_score_desc(approved_of(candidates, config, exchange)), config.max_setups)

MaxCandidates == 2

\* a candidate that passes every gate: prices in tenths, atr_pct in tenths
\* of a percent, minutes_old a whole number of half-lives
GoodCandidate(symbol) ==
    [symbol |-> symbol, direction |-> "LONG", price_current |-> 1000,
     orderbook_bid |-> 999, orderbook_ask |-> 1001, volume_usd_24h |-> 2000000,
     atr_pct |-> 20, minutes_old |-> 0, entry_near |-> 1010, entry_stop |-> 990,
     entry_tp1 |-> 1050,
     structure_flags |-> {"has_ob", "has_fvg", "bos_in_favor", "htf_trend_agrees"},
     phemex_listed |-> TRUE, regime |-> "TRENDING", ob_quality |-> Frac(3, 4)]

GateCandidates ==
    LET c == GoodCandidate("CCC/USDT")
    IN  { GoodCandidate("AAA/USDT"),
          GoodCandidate("BBB/USDT"),
          [c EXCEPT !.entry_tp1 = 1070],
          [c EXCEPT !.symbol = "SSS/USDT", !.direction = "SHORT", !.entry_near = 990,
                    !.entry_stop = 1010, !.entry_tp1 = 950, !.minutes_old = 30],
          [c EXCEPT !.symbol = "UNL/USDT", !.phemex_listed = FALSE, !.minutes_old = 60],
          [c EXCEPT !.symbol = "LRR/USDT", !.entry_tp1 = 1040],
          [c EXCEPT !.symbol = "FAR/USDT", !.entry_near = 1070, !.entry_stop = 1010,
                    !.entry_tp1 = 1190],
          [c EXCEPT !.symbol = "OLD/USDT", !.minutes_old = 120],
          [c EXCEPT !.symbol = "VOL/USDT", !.volume_usd_24h = 50000],
          [c EXCEPT !.symbol = "SPR/USDT", !.orderbook_bid = 1000, !.orderbook_ask = 1006],
          [c EXCEPT !.symbol = "CNF/USDT", !.structure_flags = {"has_ob", "htf_trend_agrees"}],
          [c EXCEPT !.symbol = "LOW/USDT", !.regime = "RANGING", !.minutes_old = 90,
                    !.ob_quality = <<>>,
                    !.structure_flags = {"has_ob", "has_fvg", "bos_in_favor"}] }

GateExchanges == {"", "phemex", "Phemex", "binance"}

GateMaxSetups == {1, 2}

NoEvaluate == [candidates |-> <<>>, exchange |-> "", max_setups |-> 5,
               called |-> FALSE, decisions |-> <<>>]

InitGatesOnly == ev = NoEvaluate

\* the caller puts one more candidate on the list it will pass
AddCandidate(candidate) ==
    /\ ~ev.called
    /\ Len(ev.candidates) < MaxCandidates
    /\ ev' = [ev EXCEPT !.candidates = Append(@, candidate)]
    /\ UNCHANGED nonGates

\* QualityGates(QualityGatesConfig(max_setups=...), exchange).evaluate(candidates)
Evaluate(exchange, max_setups) ==
    /\ ~ev.called
    /\ ev' = [ev EXCEPT !.exchange = exchange, !.max_setups = max_setups,
                        !.called = TRUE,
                        !.decisions = evaluate(ev.candidates,
                                               QualityGatesConfig(max_setups), exchange)]
    /\ UNCHANGED nonGates

----------------------------------------------------------------------------
(* scanner.py: TradeScanner.scan.  Every pair is submitted to a thread pool  *)
(* and the results are collected with as_completed.  What _scan_pair makes   *)
(* of a pair is an input: a setup with its score, or None.                   *)

NumPairs == 3

\* filtered_pairs, in the order they are submitted
ScanPairs == [i \in 1..NumPairs |-> i]

\* what _scan_pair returns for a pair: 0 for None, else the score of its setup
PairOutcomes == {0, 70, 80}

ScanWorkerCounts == {1, 2}

ScanLimits == {2, 10}

IdleScan == [pc |-> "idle", outcome |-> [i \in 1..NumPairs |-> 0],
             task |-> [i \in 1..NumPairs |-> "none"], max_workers |-> 1,
             top_setups_limit |-> 10, setups |-> <<>>, top |-> <<>>,
             metadata |-> {}, cancel |-> FALSE]

InitScanOnly == scn = IdleScan

\* scan up to the end of the dict comprehension: every pair is submitted
ScanSubmit(outcome, max_workers, top_setups_limit) ==
    /\ scn.pc = "idle"
    /\ scn' = [scn EXCEPT !.pc = "running", !.outcome = outcome,
                          !.task = [i \in 1..NumPairs |-> "queued"],
                          !.max_workers = max_workers,
                          !.top_setups_limit = top_setups_limit]
    /\ UNCHANGED nonScan

\* a free pool thread takes the oldest queued _scan_pair call
WorkerStart(i) ==
    /\ scn.pc = "running"
    /\ scn.task[i] = "queued"
    /\ \A j \in 1..(i - 1) : scn.task[j] # "queued"
    /\ Cardinality({j \in 1..NumPairs : scn.task[j] = "running"}) < scn.max_workers
    /\ scn' = [scn EXCEPT !.task[i] = "running"]
    /\ UNCHANGED nonScan

\* _scan_pair returns and its future is done
WorkerFinish(i) ==
    /\ scn.pc = "running"
    /\ scn.task[i] = "running"
    /\ scn' = [scn EXCEPT !.task[i] = "finished"]
    /\ UNCHANGED nonScan

\* as_completed yields a finished future: setups.append(setup) if there is one
Collect(i) ==
    /\ scn.pc = "running"
    /\ scn.task[i] = "finished"
    /\ scn' = [scn EXCEPT !.task[i] = "collected",
                          !.setups = IF scn.outcome[i] # 0
                                     THEN Append(@, [symbol |-> ScanPairs[i],
                                                     score |-> Whole(scn.outcome[i])])
                                     ELSE @]
    /\ UNCHANGED nonScan

\* after the pool: setups.sort(key=score, reverse=True), the slice, ScanResult
ScanReturn ==
    /\ scn.pc = "running"
    /\ \A i \in 1..NumPairs : scn.task[i] = "collected"
    /\ scn' = [scn EXCEPT !.pc = "done",
                          !.top = take(sort_by_score_desc(scn.setups), scn.top_setups_limit),
                          !.metadata = {"config", "timeframes"}]
    /\ UNCHANGED nonScan

\* whoever started the scan asks for it to stop
CancelRequest ==
    /\ scn.pc = "running"
    /\ ~scn.cancel
    /\ scn' = [scn EXCEPT !.cancel = TRUE]
    /\ UNCHANGED nonScan

----------------------------------------------------------------------------
(* models.py: TradeSetup, and the levels score_setup gives it *)

\* the Field constraints of TradeSetup
fields_valid(s) ==
    /\ s.direction \in {"LONG", "SHORT"}
    /\ FLeq(Whole(0), s.score) /\ FLeq(s.score, Whole(100))
    /\ Len(s.entry_plan) >= 1
    /\ s.stop_loss > 0
    /\ Len(s.take_profits) >= 1
    /\ FLess(Whole(0), s.rr)
    /\ Len(s.reasons) >= 1

\* variant: the targets are not compared with the entry
validate_levels_stop_only(s) ==
    /\ s.reasons # <<>>
    /\ s.direction = "LONG" => s.stop_loss < s.entry_plan[1]
    /\ s.direction = "SHORT" => s.stop_loss > s.entry_plan[1]

\* TradeSetup.validate_levels: TRUE when it raises nothing
validate_levels(s) ==
    /\ s.reasons # <<>>
    /\ s.direction = "LONG" =>
          /\ ~(s.stop_loss >= s.entry_plan[1])
          /\ ~(\E k \in 1..Len(s.take_profits) : s.take_profits[k] <= s.entry_plan[1])
    /\ s.direction = "SHORT" =>
          /\ ~(s.stop_loss <= s.entry_plan[1])
          /\ ~(\E k \in 1..Len(s.take_profits) : s.take_profits[k] >= s.entry_plan[1])

\* TradeSetup(...): the field constraints, then validate_levels
TradeSetupAccepted(s) == fields_valid(s) /\ validate_levels(s)

\* score_setup from the choice of the levels to the keyword arguments of
\* TradeSetup; prices are whole multiples of 50, so 2% and 4% of them are whole
score_setup_fields(direction, current_price, total_score, generated_reasons) ==
    LET long == direction = "LONG"
        stop_loss == IF long THEN (current_price * 98) \div 100
                     ELSE (current_price * 102) \div 100
        take_profits == IF long
                        THEN <<(current_price * 102) \div 100, (current_price * 104) \div 100>>
                        ELSE <<(current_price * 98) \div 100, (current_price * 96) \div 100>>
        risk == IF long THEN current_price - stop_loss ELSE stop_loss - current_price
        reward == IF long THEN take_profits[1] - current_price
                  ELSE current_price - take_profits[1]
        rr == IF risk > 0 THEN Frac(reward, risk) ELSE Whole(0)
    IN  [direction |-> direction, score |-> total_score,
         entry_plan |-> <<current_price>>, stop_loss |-> stop_loss,
         take_profits |-> take_profits,
         rr |-> IF FLess(Whole(0), rr) THEN rr ELSE Frac(1, 100),
         reasons |-> IF generated_reasons = <<>> THEN <<"setup detected">>
                     ELSE generated_reasons]

\* prices handed to score_setup
ScoredPrices == {-100, 0, 50, 1000}

\* keyword arguments of a TradeSetup built by any other caller
DirectSetups ==
    [direction : {"LONG", "SHORT", "NEUTRAL"}, score : {Whole(78), Whole(101)},
     entry_plan : {<<100>>, <<100, 90>>}, stop_loss : {0, 98, 100, 102},
     take_profits : {<<>>, <<98, 96>>, <<102, 104>>, <<104, 100>>, <<96, 100>>},
     rr : {Whole(0), Frac(26, 10)}, reasons : {<<>>, <<"bias detected">>}]

NoFields ==
    [direction |-> "", score |-> Whole(0), entry_plan |-> <<>>, stop_loss |-> 0,
     take_profits |-> <<>>, rr |-> Whole(0), reasons |-> <<>>]

IdleSetup == [pc |-> "idle", by |-> "", fields |-> NoFields, built |-> <<>>]

InitSetupOnly == mk = IdleSetup

\* score_setup reaches `return TradeSetup(...)`
ScoreSetupCall ==
    /\ mk.pc = "idle"
    /\ \E d \in {"LONG", "SHORT"}, p \in ScoredPrices, r \in {<<>>, <<"High composite score">>} :
          mk' = [mk EXCEPT !.pc = "constructing", !.by = "score_setup",
                           !.fields = score_setup_fields(d, p, Whole(70), r)]
    /\ UNCHANGED nonSetup

\* any other caller reaches TradeSetup(...)
DirectCall ==
    /\ mk.pc = "idle"
    /\ \E s \in DirectSetups :
          mk' = [mk EXCEPT !.pc = "constructing", !.by = "caller", !.fields = s]
    /\ UNCHANGED nonSetup

\* TradeSetup(...) returns the model, or raises ValidationError (a ValueError)
Construct ==
    /\ mk.pc = "constructing"
    /\ IF TradeSetupAccepted(mk.fields)
       THEN mk' = [mk EXCEPT !.pc = "built", !.built = <<mk.fields>>]
       ELSE mk' = [mk EXCEPT !.pc = "ValueError"]
    /\ UNCHANGED nonSetup

----------------------------------------------------------------------------
(* cli/scan.py: scan_once.  A string is a sequence of its words and          *)
(* separators, <<"eth", "-", "usdt">>; scores and ratios are fractions.      *)

MaxSymbols == 2

\* str.upper of the words in use
Upper(w) ==
    CASE w = "btc" -> "BTC" [] w = "eth" -> "ETH" [] w = "sol" -> "SOL"
      [] w = "usdt" -> "USDT" [] w = "phemex" -> "PHEMEX" [] w = "binance" -> "BINANCE"
      [] OTHER -> w

\* str.lower of the exchange ids in use
LowerId(s) == IF s = <<"Phemex">> THEN <<"phemex">> ELSE s

\* utils/symbols.py: normalize_symbol_for_exchange(symbol, exchange); <<>>
\* stands for the ValueError of an empty symbol
normalize_symbol_for_exchange(symbol, exchange) ==
    LET normalized == [k \in 1..Len(symbol) |->
                          IF symbol[k] = "-" THEN "/" ELSE Upper(symbol[k])]
        parts == SelectSeq(normalized, LAMBDA w : w # "/")
    IN  IF parts = <<>> THEN <<>>
        ELSE <<parts[1], "/", IF Len(parts) > 1 THEN parts[2] ELSE "USDT">>

\* the symbols a caller asks for, and the prefixes of them it may pass
RequestedSymbols == <<(<<"BTC", "/", "USDT">>), (<<"eth", "-", "usdt">>), (<<"sol">>)>>

ScanTimeframes == <<"15m", "1h">>

\* exchanges/phemex_checker.py: markets maps a symbol to "active" or "inactive"
is_pair_on_phemex(exchange, symbol) ==
    IF LowerId(exchange.exchange_id) # <<"phemex">> THEN FALSE
    ELSE LET normalized_symbol == normalize_symbol_for_exchange(<<"phemex">>, symbol)
         IN  /\ normalized_symbol \in DOMAIN exchange.markets
             /\ exchange.markets[normalized_symbol] = "active"

\* round(x, 2) of a non-negative fraction: to the nearest hundredth, ties to even
round2(x) ==
    LET scaled == (x[1] * 1000) \div x[2]
        q == scaled \div 10
        r == scaled % 10
    IN  Frac(IF r > 5 \/ (r = 5 /\ q % 2 = 1) THEN q + 1 ELSE q, 100)

\* _estimate_spread_bps of the candles of a timeframe: venue candles are
\* tight or wide, the seeded synthetic ones depend on the timeframe only
estimate_spread_bps(source, timeframe) ==
    IF source = "narrow" THEN Whole(50)
    ELSE IF source = "wide" THEN Whole(400)
    ELSE IF timeframe = "15m" THEN Whole(120) ELSE Whole(350)

\* _assess_liquidation_buffer: the `safe` it returns
assess_liquidation_buffer(setup, leverage) ==
    LET lev == IF leverage < 1 THEN 1 ELSE leverage
        entry == Whole(setup.entry)
        liq_offset == FMul(FDiv(entry, Whole(lev)), Frac(8, 10))
        liq_price == IF setup.direction = "LONG"
                     THEN FMax(Whole(0), FSub(entry, liq_offset))
                     ELSE FAdd(entry, liq_offset)
        buffer == IF setup.direction = "LONG" THEN FSub(entry, liq_price)
                  ELSE FSub(liq_price, entry)
        stop_buffer == IF setup.direction = "LONG" THEN Whole(setup.entry - setup.stop)
                       ELSE Whole(setup.stop - setup.entry)
    IN  /\ FLess(FMul(stop_buffer, Frac(13, 10)), buffer)
        /\ setup.entry # setup.stop

\* _enrich_setup: the fields of the candidate that the filters and the
\* ranking read
enrich_setup(setup, symbol, timeframe, leverage, source) ==
    [symbol |-> symbol, timeframe |-> timeframe, score |-> round2(setup.score),
     rr |-> round2(setup.rr), liq_safe |-> assess_liquidation_buffer(setup, leverage),
     spread_bps |-> round2(estimate_spread_bps(source, timeframe))]

\* variant: the liquidation buffer is not looked at
passes_phase_filters_any_liq(exchange, candidate, min_score, symbol) ==
    /\ ~FLess(candidate.score, min_score)
    /\ ~FLess(candidate.rr, Whole(2))
    /\ ~FLess(Whole(300), candidate.spread_bps)
    /\ is_pair_on_phemex(exchange, symbol)

\* _apply_phase_filters: TRUE when no `continue` is taken for the candidate
passes_phase_filters(exchange, candidate, min_score, symbol) ==
    /\ ~FLess(candidate.score, min_score)
    /\ ~FLess(candidate.rr, Whole(2))
    /\ candidate.liq_safe
    /\ ~FLess(Whole(300), candidate.spread_bps)
    /\ is_pair_on_phemex(exchange, symbol)

\* scoring/confluence.py, score_setup: the parts of the score that come from
\* the candles, in points
CandleScore(source) == IF source \in {"narrow", "wide"} THEN Whole(40) ELSE Whole(56)

\* calculate_liquidation_score of the levels LiquidationHeatmap draws with
\* the unseeded random module: no supporting zone, or full support
LiquidationScores == {30, 100}

\* variant: the first target is three times the stop distance away
default_setup_far_target(source, current_price, liquidation_score) ==
    [direction |-> "LONG",
     score |-> FAdd(CandleScore(source), FMul(Frac(20, 100), Whole(liquidation_score))),
     entry |-> current_price, stop |-> (current_price * 98) \div 100,
     rr |-> Whole(3)]

\* score_setup of ConfluenceScorer for a LONG: stop 2% below the price, first
\* target 2% above, rr = reward / risk
default_setup(source, current_price, liquidation_score) ==
    LET stop_loss == (current_price * 98) \div 100
        take_profit == (current_price * 102) \div 100
        risk == current_price - stop_loss
        reward == take_profit - current_price
        rr == IF risk > 0 THEN Frac(reward, risk) ELSE Whole(0)
    IN  [direction |-> "LONG",
         score |-> FAdd(CandleScore(source), FMul(Frac(20, 100), Whole(liquidation_score))),
         entry |-> current_price, stop |-> stop_loss,
         rr |-> IF FLess(Whole(0), rr) THEN rr ELSE Frac(1, 100)]

\* what a scorer passed as the `scorer` argument may return
CustomSetups ==
    { [direction |-> "LONG", score |-> Whole(78), entry |-> 995, stop |-> 975,
       rr |-> Frac(26, 10)],
      [direction |-> "SHORT", score |-> Frac(65004, 1000), entry |-> 1005, stop |-> 1025,
       rr |-> Frac(2004, 1000)],
      [direction |-> "LONG", score |-> Frac(59996, 1000), entry |-> 995, stop |-> 975,
       rr |-> Frac(1994, 1000)],
      [direction |-> "LONG", score |-> Whole(90), entry |-> 1000, stop |-> 850,
       rr |-> Whole(3)] }

\* the close of the last candle, and the price the venue quotes
LastClose == 1000

NoSetup == [direction |-> "", score |-> Whole(0), entry |-> 0, stop |-> 0, rr |-> Whole(0)]

\* what score_setup does: returns None, raises, or returns a setup, which
\* the default scorer builds after drawing the liquidation levels
Scored(kind, liquidation_score, setup) ==
    [kind |-> kind, liquidation_score |-> liquidation_score, setup |-> setup]

\* what the steps of one symbol get from the exchange and the scorer
PipelineOutcomes(args) ==
    [fetch : IF args.venue = "down" THEN {"ExchangeError"}
             ELSE {"narrow", "wide", "ExchangeError", "empty"},
     price : IF args.venue = "down" THEN {"ExchangeError"}
             ELSE {"ok", "zero", "ExchangeError"},
     scored : IF args.scorer = "default"
              THEN {Scored("None", 0, NoSetup)}
                       \cup {Scored("setup", l, NoSetup) : l \in LiquidationScores}
              ELSE {Scored("None", 0, NoSetup), Scored("ValueError", 0, NoSetup)}
                       \cup {Scored("setup", 0, c) : c \in CustomSetups}]

ScanOnceArgs ==
    [symbols : {SubSeq(RequestedSymbols, 1, n) : n \in 1..MaxSymbols},
     limit : {-1, 1, 5},
     min_score : {Whole(60)},
     leverage : {5, 10},
     exchange : [exchange_id : {<<"phemex">>, <<"binance">>},
                 markets : {[s \in {<<"PHEMEX", "/", "USDT">>} |-> "active"],
                            [s \in {<<"BTC", "/", "USDT">>, <<"ETH", "/", "USDT">>}
                                 |-> "active"]}],
     scorer : {"default", "custom"},
     venue : {"up", "down"}]

NoArgs ==
    [symbols |-> <<>>, limit |-> 0, min_score |-> Whole(0), leverage |-> 1,
     exchange |-> [exchange_id |-> <<>>, markets |-> EmptyMap],
     scorer |-> "default", venue |-> "up"]

NoStats == [pairs |-> 0, qualified |-> 0, returned |-> 0]

IdleScanOnce ==
    [pc |-> "idle", run |-> 0, args |-> NoArgs, i |-> 0, all_candidates |-> <<>>,
     results |-> <<>>, stats |-> NoStats, draws |-> <<>>, error |-> "",
     first |-> [results |-> <<>>, draws |-> <<>>]]

InitOnceOnly == so = IdleScanOnce

\* scan_once is entered: the context is built, the loop starts
ScanOnceCall(args) ==
    /\ so.pc = "idle"
    /\ so' = [IdleScanOnce EXCEPT !.pc = "loop", !.run = 1, !.args = args, !.i = 1]
    /\ UNCHANGED nonOnce

\* the source of the candles _collect_timeframe_data hands on
CandleSource(fetch) == IF fetch \in {"ExchangeError", "empty"} THEN "synthetic" ELSE fetch

\* the candidates one symbol adds to all_candidates
SymbolCandidates(args, symbol, out) ==
    LET source == CandleSource(out.fetch)
        setup == IF args.scorer = "default"
                 THEN default_setup(source, LastClose, out.scored.liquidation_score)
                 ELSE out.scored.setup
        one(k) == enrich_setup(setup, symbol, ScanTimeframes[k], args.leverage, source)
        enriched == [k \in 1..Len(ScanTimeframes) |-> one(k)]
    IN  SelectSeq(enriched,
                  LAMBDA c : passes_phase_filters(args.exchange, c, args.min_score, symbol))

\* _get_current_price: what the venue quotes, or the close of the last candle
CurrentPrice(out) == IF out.price = "zero" THEN 0 ELSE LastClose

\* one round of `for symbol in symbols`, from the normalisation of the symbol
\* to all_candidates.extend(filtered); an error of the scorer, or of the
\* TradeSetup it builds, leaves scan_once
SymbolStep(out) ==
    LET symbol == normalize_symbol_for_exchange(so.args.exchange.exchange_id,
                                                so.args.symbols[so.i])
    IN
    /\ so.pc = "loop"
    /\ so.i <= Len(so.args.symbols)
    /\ IF out.scored.kind = "ValueError"
       THEN so' = [so EXCEPT !.pc = "raised", !.error = "scorer"]
       ELSE IF /\ so.args.scorer = "default"
               /\ out.scored.kind = "setup"
               /\ ~TradeSetupAccepted(score_setup_fields("LONG", CurrentPrice(out),
                                                         Whole(70), <<>>))
       THEN so' = [so EXCEPT !.pc = "raised", !.error = "InvalidSetup"]
       ELSE so' = [so EXCEPT !.i = @ + 1,
                             !.draws = Append(@, out.scored),
                             !.all_candidates =
                                 IF out.scored.kind = "None" THEN @
                                 ELSE @ \o SymbolCandidates(so.args, symbol, out)]
    /\ UNCHANGED nonOnce

\* after the loop: the sort, the slice, the meta
ScanOnceReturn ==
    LET sorted == sort_by_score_desc(so.all_candidates)
        top_results == take(sorted, IF so.args.limit < 0 THEN 0 ELSE so.args.limit)
    IN
    /\ so.pc = "loop"
    /\ so.i > Len(so.args.symbols)
    /\ so' = [so EXCEPT !.pc = "returned", !.results = top_results,
                        !.stats = [pairs |-> Len(so.args.symbols),
                                   qualified |-> Len(so.all_candidates),
                                   returned |-> Len(top_results)]]
    /\ UNCHANGED nonOnce

\* the caller runs scan_once again with the same arguments
SecondRun ==
    /\ so.pc = "returned"
    /\ so.run = 1
    /\ so' = [so EXCEPT !.pc = "loop", !.run = 2, !.i = 1, !.all_candidates = <<>>,
                        !.results = <<>>, !.stats = NoStats, !.draws = <<>>,
                        !.first = [results |-> so.results, draws |-> so.draws]]
    /\ UNCHANGED nonOnce

----------------------------------------------------------------------------
(* planner/sizing.py and planner/leverage.py: leverage-aware position size *)

\* round(x) of Python on a fraction: to the nearest integer, ties to even
round_half_even(x) ==
    LET q == x[1] \div x[2]
        r == x[1] % x[2]
    IN  IF 2 * r > x[2] \/ (2 * r = x[2] /\ q % 2 = 1) THEN q + 1 ELSE q

FAbs(x) == <<Abs(x[1]), x[2]>>

\* _round_qty
round_qty(qty, lot_size) ==
    IF FLeq(lot_size, Whole(0)) THEN qty
    ELSE LET rounded == round_half_even(FDiv(qty, lot_size))
             steps == IF rounded > 1 THEN rounded ELSE 1
         IN  FMul(Whole(steps), lot_size)

Sides == {"LONG", "SHORT"}

\* estimate_liq_price raises ValueError
liq_price_raises(entry, side, leverage) ==
    \/ FLeq(leverage, Whole(0))
    \/ FLeq(entry, Whole(0))
    \/ side \notin Sides

\* estimate_liq_price, where it returns
estimate_liq_price(entry, side, leverage, maint_margin_rate) ==
    LET mmr == FMax(maint_margin_rate, Whole(0))
        lev == IF FLess(leverage, Whole(1))
               THEN FMax(leverage, Frac(1, 1000000000))
               ELSE leverage
        inv == FDiv(Whole(1), lev)
    IN  IF side = "LONG"
        THEN FMul(entry, FAdd(FSub(Whole(1), inv), mmr))
        ELSE FMul(entry, FSub(FAdd(Whole(1), inv), mmr))

\* _buffers, and the larger of the two
min_gap_of(sl, atr, liq_buffer_pct, liq_buffer_atr_mult) ==
    LET pct_buffer == FMul(FAbs(sl), FDiv(liq_buffer_pct, Whole(100)))
        atr_buffer == FMul(FMax(atr, Whole(0)), liq_buffer_atr_mult)
    IN  FMax(pct_buffer, atr_buffer)

\* variant: the buffers are not looked at
liq_is_safe_any_gap(sl, liq, side, atr, liq_buffer_pct, liq_buffer_atr_mult) ==
    IF side = "LONG"
    THEN IF FLeq(sl, liq) THEN [safe |-> FALSE, reason |-> "liq above stop"]
         ELSE [safe |-> TRUE, reason |-> "liq safely below stop"]
    ELSE IF FLeq(liq, sl) THEN [safe |-> FALSE, reason |-> "liq below stop"]
         ELSE [safe |-> TRUE, reason |-> "liq safely above stop"]

\* liq_is_safe for a supported side
liq_is_safe(sl, liq, side, atr, liq_buffer_pct, liq_buffer_atr_mult) ==
    LET min_gap == min_gap_of(sl, atr, liq_buffer_pct, liq_buffer_atr_mult)
    IN  IF side = "LONG"
        THEN IF FLeq(sl, liq) THEN [safe |-> FALSE, reason |-> "liq above stop"]
             ELSE IF FLeq(min_gap, FSub(sl, liq))
                  THEN [safe |-> TRUE, reason |-> "liq safely below stop"]
                  ELSE [safe |-> FALSE, reason |-> "need gap"]
        ELSE IF FLeq(liq, sl) THEN [safe |-> FALSE, reason |-> "liq below stop"]
             ELSE IF FLeq(min_gap, FSub(liq, sl))
                  THEN [safe |-> TRUE, reason |-> "liq safely above stop"]
                  ELSE [safe |-> FALSE, reason |-> "need gap"]

\* recommend_size_adjustment
recommend_size_adjustment(entry, sl, side, leverage, maint_margin_rate, atr, liq_buffer_pct, liq_buffer_atr_mult) ==
    IF FLeq(leverage, Whole(0)) THEN [factor |-> Whole(0), reason |-> "invalid leverage"]
    ELSE
    LET min_gap == min_gap_of(sl, atr, liq_buffer_pct, liq_buffer_atr_mult)
        below == FSub(sl, min_gap)
        required == IF side = "LONG"
                    THEN IF FLeq(below, Whole(0))
                         THEN FMul(sl, Frac(999999, 1000000))
                         ELSE below
                    ELSE FAdd(sl, min_gap)
        rhs == IF side = "LONG"
               THEN FSub(FAdd(Whole(1), maint_margin_rate), FDiv(required, entry))
               ELSE FSub(FAdd(FDiv(required, entry), maint_margin_rate), Whole(1))
        max_safe_leverage == FDiv(Whole(1), rhs)
        factor == FDiv(max_safe_leverage, leverage)
    IN  IF FLeq(rhs, Whole(0)) THEN [factor |-> Whole(1), reason |-> "any leverage safe"]
        ELSE IF FLeq(leverage, max_safe_leverage)
             THEN [factor |-> Whole(1), reason |-> "current leverage safe"]
        ELSE IF FLess(factor, Frac(1, 1000))
             THEN [factor |-> Whole(0), reason |-> "reduction insufficient"]
        ELSE [factor |-> factor, reason |-> "reduce leverage"]

SizeResult(qty, liq, reduced, reason) ==
    [kind |-> "return", qty |-> qty, liq |-> liq, reduced |-> reduced, reason |-> reason]

SizeRaises ==
    [kind |-> "ValueError", qty |-> Whole(0), liq |-> Whole(0), reduced |-> FALSE,
     reason |-> "ValueError"]

\* position_size_leverage from the liquidation estimate on; qty is the size
\* after the lot and the minimum notional have been applied
size_with_liq_check(a, lot_size, qty) ==
    LET cfg == a.cfg
        quantise(q) == IF lot_size # Whole(0) THEN round_qty(q, lot_size) ELSE q
        liq == estimate_liq_price(a.entry, a.side, a.leverage, a.maint_margin_rate)
        chk == liq_is_safe(a.stop, liq, a.side, a.atr,
                           cfg.LIQ_BUFFER_PCT, cfg.LIQ_BUFFER_ATR_MULT)
        adj == recommend_size_adjustment(a.entry, a.stop, a.side, a.leverage,
                                         a.maint_margin_rate, a.atr,
                                         cfg.LIQ_BUFFER_PCT, cfg.LIQ_BUFFER_ATR_MULT)
        reduced == FLess(adj.factor, Whole(1))
        effective_leverage == FMax(FMul(a.leverage, adj.factor), Whole(1))
        reduced_qty == quantise(FMul(qty, adj.factor))
        liq2 == estimate_liq_price(a.entry, a.side, effective_leverage,
                                   a.maint_margin_rate)
        chk2 == liq_is_safe(a.stop, liq2, a.side, a.atr,
                            cfg.LIQ_BUFFER_PCT, cfg.LIQ_BUFFER_ATR_MULT)
    IN  IF chk.safe \/ ~cfg.REDUCE_SIZE_IF_LIQ_TOO_CLOSE
        THEN SizeResult(qty, liq, FALSE, chk.reason)
        ELSE IF FLeq(adj.factor, Whole(0))
        THEN IF cfg.SKIP_IF_AFTER_REDUCE_STILL_UNSAFE
             THEN SizeResult(Whole(0), liq, FALSE, adj.reason)
             ELSE SizeResult(qty, liq, FALSE, chk.reason)
        ELSE IF /\ FLess(FMul(reduced_qty, a.price), a.min_notional)
                /\ cfg.SKIP_IF_AFTER_REDUCE_STILL_UNSAFE
        THEN SizeResult(Whole(0), liq, reduced, "qty below min notional after reduce")
        ELSE IF ~chk2.safe /\ cfg.SKIP_IF_AFTER_REDUCE_STILL_UNSAFE
        THEN SizeResult(Whole(0), liq2, reduced, chk2.reason)
        ELSE SizeResult(reduced_qty, liq2, reduced, chk2.reason)

\* position_size_leverage
position_size_leverage(a) ==
    LET distance == FAbs(FSub(a.entry, a.stop))
        raw_qty == FDiv(a.risk_usd, distance)
        lot_size == FMax(a.lot_size, Whole(0))
        quantise(q) == IF lot_size # Whole(0) THEN round_qty(q, lot_size) ELSE q
        at_least_a_lot == IF lot_size # Whole(0)
                          THEN FMax(FMax(raw_qty, Whole(0)), lot_size)
                          ELSE FMax(raw_qty, Whole(0))
        qty == quantise(at_least_a_lot)
        bumped == IF FLess(FMul(qty, a.price), a.min_notional)
                  THEN quantise(FDiv(a.min_notional, a.price))
                  ELSE qty
    IN  IF FLeq(a.entry, Whole(0)) \/ FLeq(a.price, Whole(0)) THEN SizeRaises
        ELSE IF FLeq(a.risk_usd, Whole(0))
        THEN SizeResult(Whole(0), Whole(0), FALSE, "no risk budget")
        ELSE IF distance = Whole(0)
        THEN SizeResult(Whole(0), Whole(0), FALSE, "zero stop distance")
        ELSE IF liq_price_raises(a.entry, a.side, a.leverage) THEN SizeRaises
        ELSE size_with_liq_check(a, lot_size, bumped)

\* the flags and buffers position_size_leverage reads from cfg
SizingConfigs ==
    [LIQ_BUFFER_PCT : {Whole(0), Whole(5)},
     LIQ_BUFFER_ATR_MULT : {Whole(0), Whole(2)},
     REDUCE_SIZE_IF_LIQ_TOO_CLOSE : BOOLEAN,
     SKIP_IF_AFTER_REDUCE_STILL_UNSAFE : BOOLEAN]

\* the calls made to position_size_leverage
SizingInputs ==
    [entry : {Whole(100)},
     stop : {Whole(100), Whole(99), Whole(98)},
     side : Sides,
     leverage : {Whole(0), Whole(1), Whole(50)},
     price : {Whole(0), Whole(10), Whole(100)},
     risk_usd : {Whole(0), Whole(1), Whole(4)},
     lot_size : {Whole(0), Whole(1), Frac(3, 10)},
     min_notional : {Whole(0), Whole(14), Whole(150)},
     maint_margin_rate : {Whole(0)},
     atr : {Whole(1)},
     cfg : SizingConfigs]

NoSizing ==
    [entry |-> Whole(0), stop |-> Whole(0), side |-> "LONG", leverage |-> Whole(0),
     price |-> Whole(0), risk_usd |-> Whole(0), lot_size |-> Whole(0),
     min_notional |-> Whole(0), maint_margin_rate |-> Whole(0), atr |-> Whole(0),
     cfg |-> [LIQ_BUFFER_PCT |-> Whole(0), LIQ_BUFFER_ATR_MULT |-> Whole(0),
              REDUCE_SIZE_IF_LIQ_TOO_CLOSE |-> FALSE,
              SKIP_IF_AFTER_REDUCE_STILL_UNSAFE |-> FALSE]]

IdleSizing == [pc |-> "idle", args |-> NoSizing, result |-> SizeRaises]

InitSizeOnly == sz = IdleSizing

\* position_size_leverage is called
SizeCall ==
    /\ sz.pc = "idle"
    /\ \E a \in SizingInputs : sz' = [sz EXCEPT !.pc = "called", !.args = a]
    /\ UNCHANGED nonSize

\* position_size_leverage returns its dict, or raises
SizeReturn ==
    /\ sz.pc = "called"
    /\ sz' = [sz EXCEPT !.pc = "done", !.result = position_size_leverage(sz.args)]
    /\ UNCHANGED nonSize

----------------------------------------------------------------------------
(* planner/execution.py: decide_execution *)

\* an Optional value: <<>> is None, <<v>> is v
None == <<>>

Some(v) == <<v>>

\* dict.get(key, default)
DictGet(d, key, default) == IF key \in DOMAIN d THEN d[key] ELSE default

\* int(x) of a fraction: truncation towards zero
int_of(x) == IF x[1] < 0 THEN -((-x[1]) \div x[2]) ELSE x[1] \div x[2]

\* _timeout_ms: cfg maps the attributes it has to their values, in seconds
timeout_ms(cfg) == int_of(FMul(DictGet(cfg, "ENTRY_TIMEOUT_SEC", Whole(60)), Whole(1000)))

\* variant: the fallback is installed whatever the type of the near entry
fallback_of_any_type(near, timeout) ==
    Some([activate_after_ms |-> timeout, type |-> "stop",
          price |-> DictGet(near, "price", None), reason |-> "maker_timeout"])

\* decide_execution: fallback
fallback_of(near, timeout) ==
    IF DictGet(near, "type", None) = Some("limit")
    THEN Some([activate_after_ms |-> timeout, type |-> "stop",
               price |-> DictGet(near, "price", None), reason |-> "maker_timeout"])
    ELSE None

\* decide_execution
decide_execution(near, far, now_ts_ms, cfg) ==
    LET timeout == timeout_ms(cfg)
        near_type == DictGet(near, "type", None)
        far_type == DictGet(far, "type", None)
        near_plan == [type |-> near_type,
                      price |-> DictGet(near, "price", None),
                      post_only |-> DictGet(near, "post_only", FALSE),
                      valid_until_ms |-> IF near_type = Some("limit")
                                         THEN Some(now_ts_ms + timeout) ELSE None,
                      reason |-> DictGet(near, "reason", "")]
        fallback == fallback_of(near, timeout)
        far_plan == [type |-> far_type,
                     price |-> DictGet(far, "price", None),
                     post_only |-> DictGet(far, "post_only", FALSE),
                     reason |-> DictGet(far, "reason", "")]
        bounded == far_plan @@ [k \in {"valid_until_ms"} |-> Some(now_ts_ms + timeout)]
    IN  [near_plan |-> near_plan,
         far_plan |-> IF /\ far_type = Some("limit")
                         /\ near_type # Some("limit")
                         /\ fallback # None
                      THEN bounded ELSE far_plan,
         fallback |-> fallback]

\* the entries handed to decide_execution: with or without a type
EntryInputs ==
    [type : {Some("limit"), Some("stop"), Some("market")}, price : {Some(100), Some(102)},
     post_only : BOOLEAN, reason : {"test"}]
    \cup [price : {Some(100)}]

\* cfg with ENTRY_TIMEOUT_SEC at 90 s, at half a second, or without it
ExecutionConfigs ==
    {[k \in {"ENTRY_TIMEOUT_SEC"} |-> Whole(90)],
     [k \in {"ENTRY_TIMEOUT_SEC"} |-> Frac(1, 2)],
     [k \in {} |-> Whole(0)]}

ExecutionNows == {0, 1000}

NoDecision == [near_plan |-> [k \in {} |-> None], far_plan |-> [k \in {} |-> None],
               fallback |-> None]

IdleDecide ==
    [pc |-> "idle", near |-> [price |-> None], far |-> [price |-> None],
     now_ts_ms |-> 0, cfg |-> [k \in {} |-> Whole(0)], plan |-> NoDecision]

InitDecideOnly == dx = IdleDecide

\* decide_execution is called
DecideCall ==
    /\ dx.pc = "idle"
    /\ \E near \in EntryInputs, far \in EntryInputs, t \in ExecutionNows,
          cfg \in ExecutionConfigs :
          dx' = [dx EXCEPT !.pc = "called", !.near = near, !.far = far,
                           !.now_ts_ms = t, !.cfg = cfg]
    /\ UNCHANGED nonDecide

\* decide_execution returns its dict
DecideReturn ==
    /\ dx.pc = "called"
    /\ dx' = [dx EXCEPT !.pc = "done",
                        !.plan = decide_execution(dx.near, dx.far, dx.now_ts_ms, dx.cfg)]
    /\ UNCHANGED nonDecide

----------------------------------------------------------------------------
(* tools/snp_trade.py: the trade command, one process per invocation *)

NumTraders == 2

Traders == 1..NumTraders

TradeModes == {"dry", "paper"}

\* _build_cfg: the constants of snipetrade/config.py, the switch off in mode dry
build_cfg(mode) ==
    [AUTOTRADE_ENABLED |-> mode # "dry", AUTOTRADE_MODE |-> mode,
     ALLOWLIST_SYMBOLS |-> {"BTC/USDT", "ETH/USDT", "SOL/USDT"}, BLOCKLIST_DAYS |-> {},
     TRADING_WINDOWS_UTC |-> << <<7, 0, 20, 0>> >>, DAILY_RISK_USD_LIMIT |-> 300,
     MAX_CONCURRENT_TRADES |-> 3, PER_SYMBOL_EXPOSURE_USD_MAX |-> 1500,
     TOTAL_EXPOSURE_USD_MAX |-> 4000, PER_TRADE_RISK_USD |-> 50,
     MAKER_TIMEOUT_SEC |-> MAKER_TIMEOUT_SEC]

\* plan.get("notional_usd") or plan.get("notional") or 0.0 of a stored entry
entry_notional(entry) ==
    IF "notional_usd" \in DOMAIN entry.plan THEN entry.plan.notional_usd ELSE 0

entry_symbol(entry) == IF "symbol" \in DOMAIN entry.plan THEN entry.plan.symbol ELSE ""

RECURSIVE exposure_of(_, _, _)
\* exposure_by_symbol[symbol] after the loop over the open orders in ids
exposure_of(doc, ids, symbol) ==
    IF ids = {} THEN 0
    ELSE LET q == CHOOSE x \in ids : TRUE
         IN  (IF entry_symbol(doc[q]) = symbol THEN entry_notional(doc[q]) ELSE 0)
                 + exposure_of(doc, ids \ {q}, symbol)

RECURSIVE sum_values(_, _)
\* sum(exposure_by_symbol.values())
sum_values(m, keys) ==
    IF keys = {} THEN 0
    ELSE LET k == CHOOSE x \in keys : TRUE IN m[k] + sum_values(m, keys \ {k})

\* _portfolio_state of the order-state document
portfolio_state_of(doc) ==
    LET open_orders == load_open_orders(doc)
        symbols == {entry_symbol(doc[q]) : q \in open_orders} \ {""}
        exposure_by_symbol == [s \in symbols |-> exposure_of(doc, open_orders, s)]
    IN  [daily_realized_loss_usd |-> 0, open_trades |-> Cardinality(open_orders),
         symbol_exposure |-> exposure_by_symbol,
         total_exposure_usd |-> sum_values(exposure_by_symbol, symbols)]

\* the day and the times of day at which the command is run
TradeToday == "2025-12-24"

TradeClocks == {43200, 75600}

\* the plan file of invocation t
TradePlans(t) == {MkPlan("p" \o ToString(t), symbol, 1000) : symbol \in {"BTC/USDT", "ETH/USDT"}}

NoPortfolio ==
    [daily_realized_loss_usd |-> 0, open_trades |-> 0, symbol_exposure |-> EmptyMap,
     total_exposure_usd |-> 0]

IdleTrader ==
    [pc |-> "idle", mode |-> "dry", plan |-> NoPlan, clock |-> 0, state |-> NoPortfolio,
     status |-> "", reason |-> "", placed |-> 0, writes |-> 0]

InitTradeOnly == tr = [t \in Traders |-> IdleTrader]

\* main: the plan is loaded and the cfg built
TradeStart(t) ==
    /\ tr[t].pc = "idle"
    /\ \E mode \in TradeModes, plan \in TradePlans(t), clock \in TradeClocks :
          tr' = [tr EXCEPT ![t] = [@ EXCEPT !.pc = "main", !.mode = mode,
                                            !.plan = plan, !.clock = clock]]
    /\ UNCHANGED <<file, nonTrade>>

\* _execute: state = _portfolio_state()
TradeRead(t) ==
    /\ tr[t].pc = "main"
    /\ tr' = [tr EXCEPT ![t] = [@ EXCEPT !.pc = "read",
                                         !.state = portfolio_state_of(load_state(file))]]
    /\ UNCHANGED <<file, nonTrade>>

\* _execute from check_policy on: the two early returns, or route_autotrade
\* up to save_intent of execute_plan
TradeDecide(t) ==
    LET me == tr[t]
        cfg == build_cfg(me.mode)
        verdict == check_policy(me.plan, me.state, cfg, TradeToday, me.clock)
    IN
    /\ me.pc = "read"
    /\ IF ~verdict.allowed
       THEN /\ tr' = [tr EXCEPT ![t] = [@ EXCEPT !.pc = "done", !.status = "blocked",
                                                 !.reason = verdict.reason]]
            /\ UNCHANGED file
       ELSE IF me.mode = "dry"
       THEN /\ tr' = [tr EXCEPT ![t] = [@ EXCEPT !.pc = "done", !.status = "dry",
                                                 !.reason = "dry-run"]]
            /\ UNCHANGED file
       ELSE /\ file' = save_state(save_intent(load_state(file), plan_id_of(me.plan),
                                              me.plan))
            /\ tr' = [tr EXCEPT ![t] = [@ EXCEPT !.pc = "intent", !.writes = @ + 1]]
    /\ UNCHANGED nonTrade

\* execute_plan: the limit order is placed, or the venue fails
TradePlaceLimit(t) ==
    LET id == plan_id_of(tr[t].plan) IN
    /\ tr[t].pc = "intent"
    /\ \E accepted \in BOOLEAN :
          IF accepted
          THEN /\ file' = save_state(update_status(load_state(file), id, "working",
                                                   "limit" :> t))
               /\ tr' = [tr EXCEPT ![t] = [@ EXCEPT !.pc = "working", !.placed = @ + 1,
                                                    !.writes = @ + 1]]
          ELSE /\ file' = save_state(update_status(load_state(file), id, "rejected",
                                                   EmptyMap))
               /\ tr' = [tr EXCEPT ![t] = [@ EXCEPT !.pc = "done", !.status = "rejected",
                                                    !.writes = @ + 1]]
    /\ UNCHANGED nonTrade

\* execute_plan: the fallback order, the fill and the status filled
TradeFinish(t) ==
    LET id == plan_id_of(tr[t].plan)
        filled == append_fill(load_state(file), id, "fill")
    IN
    /\ tr[t].pc = "working"
    /\ file' = save_state(update_status(filled, id, "filled", "fallback" :> t))
    /\ tr' = [tr EXCEPT ![t] = [@ EXCEPT !.pc = "done", !.status = "filled",
                                         !.placed = @ + 1, !.writes = @ + 2]]
    /\ UNCHANGED nonTrade

----------------------------------------------------------------------------
(* scoring/confluence.py: the timeframe confluence of score_setup.  An      *)
(* indicator signal is [signal, strength], the strength in tenths.          *)

ScorerTimeframes == <<"15m", "1h", "4h">>

RECURSIVE strength_sum(_, _)
\* sum(s.strength for s in signals if s.signal == direction)
strength_sum(signals, direction) ==
    IF signals = <<>> THEN 0
    ELSE (IF Head(signals).signal = direction THEN Head(signals).strength ELSE 0)
             + strength_sum(Tail(signals), direction)

determine_dominant_direction(signals) ==
    LET long_strength == strength_sum(signals, "LONG")
        short_strength == strength_sum(signals, "SHORT")
    IN  IF long_strength > short_strength THEN "LONG"
        ELSE IF short_strength > long_strength THEN "SHORT"
        ELSE "NEUTRAL"

\* directions.count(direction)
direction_count(timeframe_signals, direction) ==
    Cardinality({tf \in DOMAIN timeframe_signals : timeframe_signals[tf] = direction})

\* calculate_timeframe_confluence, in points
calculate_timeframe_confluence(timeframe_signals) ==
    IF DOMAIN timeframe_signals = {} THEN Whole(0)
    ELSE LET long_count == direction_count(timeframe_signals, "LONG")
             short_count == direction_count(timeframe_signals, "SHORT")
             total == Cardinality(DOMAIN timeframe_signals)
             max_count == IF long_count > short_count THEN long_count ELSE short_count
         IN  Frac(max_count * 100, total)

\* the signals calculate_all_indicators gives for a timeframe that has at
\* least 50 candles
signals_of(data) == IF data.candles < 50 THEN <<>> ELSE data.signals

\* timeframe_directions after the loop of score_setup
timeframe_directions_of(timeframe_data) ==
    [tf \in {t \in DOMAIN timeframe_data : signals_of(timeframe_data[t]) # <<>>} |->
        determine_dominant_direction(signals_of(timeframe_data[tf]))]

RECURSIVE all_signals_of(_, _)
\* all_signals after the loop, over the timeframes from the k-th on
all_signals_of(timeframe_data, k) ==
    IF k > Len(ScorerTimeframes) THEN <<>>
    ELSE (IF ScorerTimeframes[k] \in DOMAIN timeframe_data
          THEN signals_of(timeframe_data[ScorerTimeframes[k]]) ELSE <<>>)
             \o all_signals_of(timeframe_data, k + 1)

NoConfluence ==
    [built |-> FALSE, direction |-> "NEUTRAL", timeframe_confluence |-> EmptyMap,
     confluence_score |-> Whole(0)]

\* score_setup: None, or the direction, the timeframe_confluence mapping and
\* the confluence_score of the TradeSetup it returns
score_setup_confluence(timeframe_data) ==
    LET all_signals == all_signals_of(timeframe_data, 1)
        timeframe_directions == timeframe_directions_of(timeframe_data)
        overall_direction == determine_dominant_direction(all_signals)
    IN  IF all_signals = <<>> \/ overall_direction = "NEUTRAL" THEN NoConfluence
        ELSE [built |-> TRUE, direction |-> overall_direction,
              timeframe_confluence |-> timeframe_directions,
              confluence_score |-> calculate_timeframe_confluence(timeframe_directions)]

Signal(direction, strength) == [signal |-> direction, strength |-> strength]

\* the candles of one timeframe and the signals the indicators give for them
TimeframeInputs ==
    {[candles |-> 49, signals |-> <<Signal("LONG", 9)>>]}
        \cup {[candles |-> 200, signals |-> s] :
                s \in {<<>>, <<Signal("LONG", 3)>>, <<Signal("SHORT", 3)>>,
                       <<Signal("LONG", 9)>>, <<Signal("LONG", 5), Signal("SHORT", 5)>>,
                       <<Signal("NEUTRAL", 5)>>}}

IdleScorer == [pc |-> "idle", timeframe_data |-> EmptyMap, result |-> NoConfluence]

InitScorerOnly == sc = IdleScorer

\* score_setup is called with the data of the scorer's timeframes
ScorerCall ==
    /\ sc.pc = "idle"
    /\ \E a \in TimeframeInputs, b \in TimeframeInputs, c \in TimeframeInputs :
          sc' = [sc EXCEPT !.pc = "called",
                           !.timeframe_data =
                               ("15m" :> a) @@ ("1h" :> b) @@ ("4h" :> c)]
    /\ UNCHANGED nonScorer

\* score_setup returns
ScorerReturn ==
    /\ sc.pc = "called"
    /\ sc' = [sc EXCEPT !.pc = "done",
                        !.result = score_setup_confluence(sc.timeframe_data)]
    /\ UNCHANGED nonScorer

----------------------------------------------------------------------------
(* PaperPhemexClient: place, amend and cancel called one after another *)

MaxPaperCalls == 4

\* the order ids the callers pass: those of the first two orders, and one
\* no order has
PaperOrderIds == 1..3

AmendParams == {"price" :> 7}

\* PaperPhemexClient.amend, the body under the lock
amend(ords, order_id, params) ==
    IF order_id \notin DOMAIN ords THEN [orders |-> ords, raised |-> TRUE]
    ELSE [orders |-> [ords EXCEPT ![order_id] =
                         [@ EXCEPT !.order = Update(@, params), !.status = "amended"]],
          raised |-> FALSE]

\* PaperPhemexClient.cancel, the body under the lock
cancel(ords, order_id) ==
    IF order_id \notin DOMAIN ords THEN [orders |-> ords, raised |-> TRUE]
    ELSE [orders |-> [ords EXCEPT ![order_id] = [@ EXCEPT !.status = "canceled"]],
          raised |-> FALSE]

\* calls: the calls made; op, raised, before: the last call, whether it
\* raised, and the orders before it; canceled: the orders cancel has acted on
IdlePaper == [calls |-> 0, op |-> "", raised |-> FALSE, before |-> EmptyMap, canceled |-> {}]

InitPaperOnly == pp = IdlePaper

PaperPlace ==
    /\ pp.calls < MaxPaperCalls
    /\ \E order \in VenueOrderInputs, key \in VenueKeys :
          LET res == place(orders, id_map, order, key)
          IN  /\ orders' = res.orders
              /\ id_map' = res.id_map
    /\ pp' = [pp EXCEPT !.calls = @ + 1, !.op = "place", !.raised = FALSE,
                        !.before = orders]
    /\ UNCHANGED nonPaper

PaperAmend ==
    /\ pp.calls < MaxPaperCalls
    /\ \E order_id \in PaperOrderIds, params \in AmendParams :
          LET res == amend(orders, order_id, params)
          IN  /\ orders' = res.orders
              /\ pp' = [pp EXCEPT !.calls = @ + 1, !.op = "amend", !.raised = res.raised,
                                  !.before = orders]
    /\ UNCHANGED id_map
    /\ UNCHANGED nonPaper

PaperCancel ==
    /\ pp.calls < MaxPaperCalls
    /\ \E order_id \in PaperOrderIds :
          LET res == cancel(orders, order_id)
          IN  /\ orders' = res.orders
              /\ pp' = [pp EXCEPT !.calls = @ + 1, !.op = "cancel", !.raised = res.raised,
                                  !.before = orders,
                                  !.canceled = IF res.raised THEN @ ELSE @ \cup {order_id}]
    /\ UNCHANGED id_map
    /\ UNCHANGED nonPaper

----------------------------------------------------------------------------
(* adapters/ccxt_adapter.py: fetch_ohlcv and the lists it hands out.  A     *)
(* list is an object on the heap, named by a reference; the cache and the   *)
(* callers hold references.                                                 *)

\* DEFAULT_TTLS["ohlcv"], in seconds
OHLCV_TTL == 60

MaxAliasTime == 90

MaxMutations == 2

\* _ohlcv_cache_key: f"{symbol}:{timeframe}:{limit}:{since or 0}"
ohlcv_cache_key(symbol, timeframe, limit, since) ==
    <<symbol, timeframe, limit, IF since = None THEN 0 ELSE since[1]>>

OhlcvRequests ==
    [symbol : {"BTC/USDT"}, timeframe : {"15m", "1h"}, limit : {200},
     since : {None, Some(0)}]

\* what the venue answers: the candles that pass the casts
VenueCandles == {<<"c1">>, <<"c1", "c2">>}

\* a new list object
NewRef(heap) == Cardinality(DOMAIN heap) + 1

\* CcxtAdapter.fetch_ohlcv: the cache and the heap it leaves, the reference
\* it returns, and whether the cache answered
fetch_ohlcv(a, request, candles) ==
    LET cache_key == ohlcv_cache_key(request.symbol, request.timeframe, request.limit, request.since)
        got == cache_get(a.cache, cache_key, a.t)
        typed_candles == NewRef(a.heap)
    IN  IF got.result.found
        THEN [cache |-> got.store, heap |-> a.heap, ref |-> got.result.value, hit |-> TRUE]
        ELSE [cache |-> cache_set(got.store, cache_key, typed_candles, <<>>, OHLCV_TTL,
                                  a.t).store,
              heap |-> Update(a.heap, typed_candles :> candles),
              ref |-> typed_candles, hit |-> FALSE]

\* what a caller may do to a list it holds
ListMutations == {"append", "clear"}

mutate_list(list, how) == IF how = "append" THEN Append(list, "x") ELSE <<>>

NoFetch == [key |-> <<>>, ref |-> 0, hit |-> FALSE, content |-> <<>>]

\* cache, heap, t: the adapter's cache, the lists, the clock; held: the
\* references callers hold; ret: the last return of fetch_ohlcv; filled:
\* what the fetch that filled each key returned; mutations: the count
IdleAdapter ==
    [cache |-> EmptyMap, heap |-> EmptyMap, t |-> 0, held |-> {}, ret |-> NoFetch,
     filled |-> EmptyMap, mutations |-> 0]

InitAliasOnly == al = IdleAdapter

FetchOhlcv ==
    \E request \in OhlcvRequests, candles \in VenueCandles :
        LET res == fetch_ohlcv(al, request, candles)
            key == ohlcv_cache_key(request.symbol, request.timeframe, request.limit, request.since)
        IN  /\ al' = [al EXCEPT !.cache = res.cache, !.heap = res.heap,
                                !.held = @ \cup {res.ref},
                                !.ret = [key |-> key, ref |-> res.ref, hit |-> res.hit,
                                         content |-> res.heap[res.ref]],
                                !.filled = IF res.hit THEN @
                                           ELSE Update(@, key :> res.heap[res.ref])]
            /\ UNCHANGED nonAlias

\* a caller changes a list it got from fetch_ohlcv
CallerMutates ==
    /\ al.mutations < MaxMutations
    /\ \E ref \in al.held, how \in ListMutations :
          al' = [al EXCEPT !.heap = [@ EXCEPT ![ref] = mutate_list(@, how)],
                           !.mutations = @ + 1]
    /\ UNCHANGED nonAlias

\* half a minute passes
AdapterTick ==
    /\ al.t < MaxAliasTime
    /\ al' = [al EXCEPT !.t = @ + 30]
    /\ UNCHANGED nonAlias

----------------------------------------------------------------------------
(* Specifications *)

Init ==
    /\ InitExec
    /\ telegram \in BOOLEAN
    /\ InitVenueOnly
    /\ InitWriterOnly
    /\ InitCacheOnly
    /\ pol = NoPolicyCall
    /\ InitThreadOnly
    /\ InitRetryOnly
    /\ InitGatesOnly
    /\ InitScanOnly
    /\ InitOnceOnly
    /\ InitSizeOnly
    /\ InitDecideOnly
    /\ InitSetupOnly
    /\ InitTradeOnly
    /\ InitScorerOnly
    /\ InitPaperOnly
    /\ InitAliasOnly

RunStep(r) ==
    \/ \E plan \in RoutePlans, ps \in RoutePortfolios, cfg \in RouteCfgs :
          RouteCall(r, plan, ps, cfg, "2025-01-01", 0)
    \/ \E ok \in BOOLEAN : PlaceLimit(r, ok)
    \/ SleepDone(r)
    \/ \E ok \in BOOLEAN : PlaceFallback(r, ok)

Next == \E r \in Runs : RunStep(r)

Spec == Init /\ [][Next]_vars

NextClock == Tick \/ RunStep(1)

SpecClock == Init /\ [][NextClock]_vars

InitVenue ==
    /\ InitExec
    /\ telegram = FALSE
    /\ InitVenueOnly
    /\ InitWriterOnly
    /\ InitCacheOnly
    /\ pol = NoPolicyCall
    /\ InitThreadOnly
    /\ InitRetryOnly
    /\ InitGatesOnly
    /\ InitScanOnly
    /\ InitOnceOnly
    /\ InitSizeOnly
    /\ InitDecideOnly
    /\ InitSetupOnly
    /\ InitTradeOnly
    /\ InitScorerOnly
    /\ InitPaperOnly
    /\ InitAliasOnly

CallerStep(c) ==
    \/ \E order \in VenueOrderInputs, key \in VenueKeys : CallPlace(c, order, key)
    \/ Acquire(c)
    \/ PlaceBody(c)

NextVenue == \E c \in Callers : CallerStep(c)

SpecVenue == InitVenue /\ [][NextVenue]_vars

InitState ==
    /\ InitExec
    /\ telegram = FALSE
    /\ InitVenueOnly
    /\ InitWriterOnly
    /\ InitCacheOnly
    /\ pol = NoPolicyCall
    /\ InitThreadOnly
    /\ InitRetryOnly
    /\ InitGatesOnly
    /\ InitScanOnly
    /\ InitOnceOnly
    /\ InitSizeOnly
    /\ InitDecideOnly
    /\ InitSetupOnly
    /\ InitTradeOnly
    /\ InitScorerOnly
    /\ InitPaperOnly
    /\ InitAliasOnly

WriterStep(w) ==
    \/ LoadAndChange(w)
    \/ OpenForWrite(w)
    \/ Dump(w)

NextState == ReaderLoad \/ \E w \in Writers : WriterStep(w)

SpecState == InitState /\ [][NextState]_vars

InitCache ==
    /\ InitExec
    /\ telegram = FALSE
    /\ InitVenueOnly
    /\ InitWriterOnly
    /\ InitCacheOnly
    /\ pol = NoPolicyCall
    /\ InitThreadOnly
    /\ InitRetryOnly
    /\ InitGatesOnly
    /\ InitScanOnly
    /\ InitOnceOnly
    /\ InitSizeOnly
    /\ InitDecideOnly
    /\ InitSetupOnly
    /\ InitTradeOnly
    /\ InitScorerOnly
    /\ InitPaperOnly
    /\ InitAliasOnly

NextCache ==
    \/ \E k \in CacheKeys, v \in CacheValues, ttl \in TtlInputs : CacheSet(k, v, ttl)
    \/ \E k \in CacheKeys : CacheGet(k)
    \/ \E k \in CacheKeys : CachePop(k)
    \/ CacheClear
    \/ Tick

SpecCache == InitCache /\ [][NextCache]_vars

InitPolicy ==
    /\ InitExec
    /\ telegram = FALSE
    /\ InitVenueOnly
    /\ InitWriterOnly
    /\ InitCacheOnly
    /\ pol \in PolicyCalls
    /\ InitThreadOnly
    /\ InitRetryOnly
    /\ InitGatesOnly
    /\ InitScanOnly
    /\ InitOnceOnly
    /\ InitSizeOnly
    /\ InitDecideOnly
    /\ InitSetupOnly
    /\ InitTradeOnly
    /\ InitScorerOnly
    /\ InitPaperOnly
    /\ InitAliasOnly

NextPolicy == CheckPolicy

SpecPolicy == InitPolicy /\ [][NextPolicy]_vars

InitThreads ==
    /\ InitExec
    /\ telegram = FALSE
    /\ InitVenueOnly
    /\ InitWriterOnly
    /\ InitCacheOnly
    /\ pol = NoPolicyCall
    /\ InitThreadOnly
    /\ InitRetryOnly
    /\ InitGatesOnly
    /\ InitScanOnly
    /\ InitOnceOnly
    /\ InitSizeOnly
    /\ InitDecideOnly
    /\ InitSetupOnly
    /\ InitTradeOnly
    /\ InitScorerOnly
    /\ InitPaperOnly
    /\ InitAliasOnly

ThreadStep(t) ==
    \/ \E op \in {"get", "pop"}, k \in ThreadKeys : ThreadCall(t, op, k)
    \/ ThreadCall(t, "clear", "")
    \/ \E k \in ThreadKeys, v \in CacheValues, ttl \in ThreadTtls :
          ThreadCallSet(t, k, v, ttl)
    \/ ThreadAcquire(t)
    \/ GetRead(t)
    \/ GetCheck(t)
    \/ SetBody(t)
    \/ PopBody(t)
    \/ ClearBody(t)

NextThreads == ThreadTick \/ \E t \in Threads : ThreadStep(t)

SpecThreads == InitThreads /\ [][NextThreads]_vars

InitRetry ==
    /\ InitExec
    /\ telegram = FALSE
    /\ InitVenueOnly
    /\ InitWriterOnly
    /\ InitCacheOnly
    /\ pol = NoPolicyCall
    /\ InitThreadOnly
    /\ InitRetryOnly
    /\ InitGatesOnly
    /\ InitScanOnly
    /\ InitOnceOnly
    /\ InitSizeOnly
    /\ InitDecideOnly
    /\ InitSetupOnly
    /\ InitTradeOnly
    /\ InitScorerOnly
    /\ InitPaperOnly
    /\ InitAliasOnly

NextRetry ==
    \/ \E n \in RetryBudgets : RequestCall(n)
    \/ VenueReturns
    \/ \E exc \in VenueErrors : VenueRaises(exc)
    \/ SleepReturns

\* the loop is one thread's sequential code: the venue function and
\* time.sleep both come back, so a call that has started keeps stepping
SpecRetry == InitRetry /\ [][NextRetry]_vars /\ WF_vars(NextRetry)

InitGates ==
    /\ InitExec
    /\ telegram = FALSE
    /\ InitVenueOnly
    /\ InitWriterOnly
    /\ InitCacheOnly
    /\ pol = NoPolicyCall
    /\ InitThreadOnly
    /\ InitRetryOnly
    /\ InitGatesOnly
    /\ InitScanOnly
    /\ InitOnceOnly
    /\ InitSizeOnly
    /\ InitDecideOnly
    /\ InitSetupOnly
    /\ InitTradeOnly
    /\ InitScorerOnly
    /\ InitPaperOnly
    /\ InitAliasOnly


NextGates ==
    \/ \E candidate \in GateCandidates : AddCandidate(candidate)
    \/ \E exchange \in GateExchanges, max_setups \in GateMaxSetups :
          Evaluate(exchange, max_setups)

SpecGates == InitGates /\ [][NextGates]_vars

InitScan ==
    /\ InitExec
    /\ telegram = FALSE
    /\ InitVenueOnly
    /\ InitWriterOnly
    /\ InitCacheOnly
    /\ pol = NoPolicyCall
    /\ InitThreadOnly
    /\ InitRetryOnly
    /\ InitGatesOnly
    /\ InitScanOnly
    /\ InitOnceOnly
    /\ InitSizeOnly
    /\ InitDecideOnly
    /\ InitSetupOnly
    /\ InitTradeOnly
    /\ InitScorerOnly
    /\ InitPaperOnly
    /\ InitAliasOnly


NextScan ==
    \/ \E outcome \in [1..NumPairs -> PairOutcomes], max_workers \in ScanWorkerCounts,
          top_setups_limit \in ScanLimits :
          ScanSubmit(outcome, max_workers, top_setups_limit)
    \/ \E i \in 1..NumPairs : WorkerStart(i) \/ WorkerFinish(i) \/ Collect(i)
    \/ ScanReturn
    \/ CancelRequest

SpecScan == InitScan /\ [][NextScan]_vars

InitScanOnce ==
    /\ InitExec
    /\ telegram = FALSE
    /\ InitVenueOnly
    /\ InitWriterOnly
    /\ InitCacheOnly
    /\ pol = NoPolicyCall
    /\ InitThreadOnly
    /\ InitRetryOnly
    /\ InitGatesOnly
    /\ InitScanOnly
    /\ InitOnceOnly
    /\ InitSizeOnly
    /\ InitDecideOnly
    /\ InitSetupOnly
    /\ InitTradeOnly
    /\ InitScorerOnly
    /\ InitPaperOnly
    /\ InitAliasOnly


NextScanOnce ==
    \/ \E args \in ScanOnceArgs : ScanOnceCall(args)
    \/ \E out \in PipelineOutcomes(so.args) : SymbolStep(out)
    \/ ScanOnceReturn

SpecScanOnce == InitScanOnce /\ [][NextScanOnce]_vars

\* two runs back to back, the venue unreachable, the scorer scan_once builds
NextScanTwice ==
    \/ \E args \in {a \in ScanOnceArgs : a.venue = "down" /\ a.scorer = "default"} :
          ScanOnceCall(args)
    \/ \E out \in PipelineOutcomes(so.args) : SymbolStep(out)
    \/ ScanOnceReturn
    \/ SecondRun

SpecScanTwice == InitScanOnce /\ [][NextScanTwice]_vars

InitSizing ==
    /\ InitExec
    /\ telegram = FALSE
    /\ InitVenueOnly
    /\ InitWriterOnly
    /\ InitCacheOnly
    /\ pol = NoPolicyCall
    /\ InitThreadOnly
    /\ InitRetryOnly
    /\ InitGatesOnly
    /\ InitScanOnly
    /\ InitOnceOnly
    /\ InitSizeOnly
    /\ InitDecideOnly
    /\ InitSetupOnly
    /\ InitTradeOnly
    /\ InitScorerOnly
    /\ InitPaperOnly
    /\ InitAliasOnly

NextSizing ==
    \/ SizeCall
    \/ SizeReturn

SpecSizing == InitSizing /\ [][NextSizing]_vars

InitDecide ==
    /\ InitExec
    /\ telegram = FALSE
    /\ InitVenueOnly
    /\ InitWriterOnly
    /\ InitCacheOnly
    /\ pol = NoPolicyCall
    /\ InitThreadOnly
    /\ InitRetryOnly
    /\ InitGatesOnly
    /\ InitScanOnly
    /\ InitOnceOnly
    /\ InitSizeOnly
    /\ InitDecideOnly
    /\ InitSetupOnly
    /\ InitTradeOnly
    /\ InitScorerOnly
    /\ InitPaperOnly
    /\ InitAliasOnly

NextDecide ==
    \/ DecideCall
    \/ DecideReturn

SpecDecide == InitDecide /\ [][NextDecide]_vars

InitSetup ==
    /\ InitExec
    /\ telegram = FALSE
    /\ InitVenueOnly
    /\ InitWriterOnly
    /\ InitCacheOnly
    /\ pol = NoPolicyCall
    /\ InitThreadOnly
    /\ InitRetryOnly
    /\ InitGatesOnly
    /\ InitScanOnly
    /\ InitOnceOnly
    /\ InitSizeOnly
    /\ InitDecideOnly
    /\ InitSetupOnly
    /\ InitTradeOnly
    /\ InitScorerOnly
    /\ InitPaperOnly
    /\ InitAliasOnly

NextSetup ==
    \/ ScoreSetupCall
    \/ DirectCall
    \/ Construct

SpecSetup == InitSetup /\ [][NextSetup]_vars

InitTrade ==
    /\ InitExec
    /\ telegram = FALSE
    /\ InitVenueOnly
    /\ InitWriterOnly
    /\ InitCacheOnly
    /\ pol = NoPolicyCall
    /\ InitThreadOnly
    /\ InitRetryOnly
    /\ InitGatesOnly
    /\ InitScanOnly
    /\ InitOnceOnly
    /\ InitSizeOnly
    /\ InitDecideOnly
    /\ InitSetupOnly
    /\ InitTradeOnly
    /\ InitScorerOnly
    /\ InitPaperOnly
    /\ InitAliasOnly

NextTrade ==
    \E t \in Traders :
        \/ TradeStart(t)
        \/ TradeRead(t)
        \/ TradeDecide(t)
        \/ TradePlaceLimit(t)
        \/ TradeFinish(t)

\* invocations of the trade command, each its own process, on one state file
SpecTrade == InitTrade /\ [][NextTrade]_vars

InitScorer ==
    /\ InitExec
    /\ telegram = FALSE
    /\ InitVenueOnly
    /\ InitWriterOnly
    /\ InitCacheOnly
    /\ pol = NoPolicyCall
    /\ InitThreadOnly
    /\ InitRetryOnly
    /\ InitGatesOnly
    /\ InitScanOnly
    /\ InitOnceOnly
    /\ InitSizeOnly
    /\ InitDecideOnly
    /\ InitSetupOnly
    /\ InitTradeOnly
    /\ InitScorerOnly
    /\ InitPaperOnly
    /\ InitAliasOnly

NextScorer == ScorerCall \/ ScorerReturn

\* score_setup over the signals of three timeframes
SpecScorer == InitScorer /\ [][NextScorer]_vars

InitPaper ==
    /\ InitExec
    /\ telegram = FALSE
    /\ InitVenueOnly
    /\ InitWriterOnly
    /\ InitCacheOnly
    /\ pol = NoPolicyCall
    /\ InitThreadOnly
    /\ InitRetryOnly
    /\ InitGatesOnly
    /\ InitScanOnly
    /\ InitOnceOnly
    /\ InitSizeOnly
    /\ InitDecideOnly
    /\ InitSetupOnly
    /\ InitTradeOnly
    /\ InitScorerOnly
    /\ InitPaperOnly
    /\ InitAliasOnly

NextPaper == PaperPlace \/ PaperAmend \/ PaperCancel

\* any sequence of place, amend and cancel on one paper client
SpecPaper == InitPaper /\ [][NextPaper]_vars

InitAlias ==
    /\ InitExec
    /\ telegram = FALSE
    /\ InitVenueOnly
    /\ InitWriterOnly
    /\ InitCacheOnly
    /\ pol = NoPolicyCall
    /\ InitThreadOnly
    /\ InitRetryOnly
    /\ InitGatesOnly
    /\ InitScanOnly
    /\ InitOnceOnly
    /\ InitSizeOnly
    /\ InitDecideOnly
    /\ InitSetupOnly
    /\ InitTradeOnly
    /\ InitScorerOnly
    /\ InitPaperOnly
    /\ InitAliasOnly

NextAlias == FetchOhlcv \/ CallerMutates \/ AdapterTick

\* callers that fetch candles and change the lists they get
SpecAlias == InitAlias /\ [][NextAlias]_vars

----------------------------------------------------------------------------
(* Properties of the executor *)

\* the orders the venue holds that were created under an idempotency key
VenueOrders(key) == {o \in DOMAIN orders : orders[o].idempotency_key = key}

Terminal == {"filled", "rejected", "canceled", "amended"}

Rank(status) ==
    IF status = "intent" THEN 0 ELSE IF status = "working" THEN 1 ELSE 2

CountEvents(p, event) ==
    Cardinality({i \in DOMAIN journal : journal[i] = [plan_id |-> p, event |-> event]})

\* C1: for every plan_id the statuses persisted one after the other never move
\* backward (intent, then working, then a terminal status) and never change
\* again once a terminal status was persisted.
C1_StatusNeverMovesBack ==
    \A p \in PlanIds : \A i \in 1..(Len(hist[p]) - 1) :
        /\ Rank(hist[p][i]) <= Rank(hist[p][i + 1])
        /\ hist[p][i] \in Terminal => hist[p][i + 1] = hist[p][i]

\* C3: when execute_plan has run to completion twice for the same plan_id, the
\* venue holds exactly one limit order for the plan, the persisted statuses are
\* intent, working, filled exactly once, and the journal holds exactly one
\* limit_placed event for the plan_id.
C3_RetryPlacesOnce ==
    \A r1, r2 \in Runs :
        ( /\ r1 # r2
          /\ run[r1].status = "filled" /\ run[r2].status = "filled"
          /\ run[r1].plan.id = run[r2].plan.id )
        => LET p == run[r1].plan.id
           IN  /\ Cardinality(VenueOrders(<<p, "limit">>)) = 1
               /\ hist[p] = <<"intent", "working", "filled">>
               /\ CountEvents(p, "limit_placed") = 1

\* C4: a fallback order is submitted only after the maker limit order was
\* placed and at least MAKER_TIMEOUT_SEC seconds after that placement.
C4_FallbackAfterTimeout ==
    \A r \in Runs :
        run[r].fallback_at # -1
        => /\ run[r].limit_at # -1
           /\ run[r].fallback_at - run[r].limit_at >= run[r].timeout

\* C5: an invocation whose inputs check_policy does not allow has returned
\* (not raised) with status blocked or disabled and a reason, has made no
\* venue call and has written no order state.
C5_BlockedTouchesNothing ==
    \A r \in Runs :
        (run[r].pc # "idle" /\ ~run[r].allowed)
        => /\ run[r].pc = "done"
           /\ run[r].status \in {"blocked", "disabled"}
           /\ run[r].reason # ""
           /\ run[r].calls = {}
           /\ run[r].writes = 0
           /\ run[r].fills = 0

\* C7: an invocation whose maker limit placement failed has returned status
\* rejected, the journal holds an error event for its plan, rejected was
\* persisted for its plan_id, and it submitted no fallback and appended no fill.
C7_LimitFailureRejected ==
    \A r \in Runs :
        run[r].limit_err
        => /\ run[r].pc = "done"
           /\ run[r].status = "rejected"
           /\ CountEvents(run[r].plan.id, "error") >= 1
           /\ "rejected" \in Range(hist[run[r].plan.id])
           /\ "fallback" \notin run[r].calls
           /\ run[r].fills = 0

C7_Witness ==
    \E r \in Runs :
        /\ run[r].limit_err /\ run[r].status = "rejected"
        /\ load_state(file)[run[r].plan.id].status = "rejected"

\* C9: no step removes or reorders a persisted fill, and no step removes a
\* role from a plan's exchange_ids.
C9_AppendOnly ==
    [][\A p \in DOMAIN load_state(file) :
          /\ p \in DOMAIN load_state(file')
          /\ IsPrefix(load_state(file)[p].fills, load_state(file')[p].fills)
          /\ DOMAIN load_state(file)[p].exchange_ids
                \subseteq DOMAIN load_state(file')[p].exchange_ids]_vars

----------------------------------------------------------------------------
(* Properties of the paper venue client *)

----------------------------------------------------------------------------
(* Properties of the shared order-state file *)

RECURSIVE RunAlone(_, _, _)
\* the document writer w leaves when nothing else touches the file
RunAlone(state, w, i) ==
    IF i > Len(WriterCalls) THEN state
    ELSE RunAlone(ApplyCall(state, w, i), w, i + 1)

\* C8: no reader ever opens a half-written document, and once every writer
\* has made all its calls the document holds every writer's plan with the
\* status, exchange ids and fills its own calls gave it.
C8_AtomicPerPlan ==
    /\ ~seenPartial
    /\ (\A w \in Writers : worker[w].pc = "done")
        => \A w \in Writers :
              /\ WriterPlan(w) \in DOMAIN load_state(file)
              /\ load_state(file)[WriterPlan(w)] = RunAlone(EmptyDoc, w, 1)[WriterPlan(w)]

----------------------------------------------------------------------------
(* Properties of the TTL cache *)

\* the latest mutation of the key was a set whose ttl had not run out at time t
Fresh(key, t) == last[key].kind = "set" /\ t - last[key].at < last[key].ttl

\* C10: a get returns a value only when the latest mutation of its key was a
\* set of that value and fewer than ttl seconds had passed since that set;
\* when the key was never set, was popped or cleared, or its ttl has run
\* out, the get returns absent.
C10_GetOnlyFresh ==
    ret.op = "get" =>
        /\ ret.result.found => /\ Fresh(ret.key, ret.at)
                               /\ ret.result.value = last[ret.key].value
        /\ ~Fresh(ret.key, ret.at) => ret.result = Absent

C10_Witness ==
    /\ ret.op = "get"
    /\ ret.result.found
    /\ ret.at > last[ret.key].at
    /\ \E k \in CacheKeys : last[k].kind = "pop"

----------------------------------------------------------------------------
(* Properties of check_policy *)

\* The twelve checks in the order the claim gives them, each with whether the
\* call's arguments pass it and the reason reported when they do not.  With
\* optional = TRUE a trading-window check with no window configured and a
\* limit or cap check whose limit or cap is 0 pass; with optional = FALSE
\* they are compared as written.
PolicyChecks(optional) ==
    LET plan == pol.plan
        ps == pol.portfolio_state
        cfg == pol.cfg
        notional == extract_notional(plan)
        Off(x) == optional /\ x = 0
    IN
    << [passes |-> cfg.AUTOTRADE_ENABLED, reason |-> "autotrade disabled"],
       [passes |-> cfg.AUTOTRADE_MODE \in {"paper", "live25", "live50", "live100"},
        reason |-> "unsupported mode"],
       [passes |-> plan.symbol # "", reason |-> "plan missing symbol"],
       [passes |-> cfg.ALLOWLIST_SYMBOLS = {} \/ plan.symbol \in cfg.ALLOWLIST_SYMBOLS,
        reason |-> "symbol not allowlisted"],
       [passes |-> pol.today \notin cfg.BLOCKLIST_DAYS, reason |-> "day blocked"],
       [passes |-> \/ optional /\ cfg.TRADING_WINDOWS_UTC = <<>>
                   \/ \E i \in DOMAIN cfg.TRADING_WINDOWS_UTC :
                         LET w == parse_window(cfg.TRADING_WINDOWS_UTC[i])
                         IN  IF w.start <= w.end
                             THEN pol.current_time \in w.start..w.end
                             ELSE pol.current_time \notin (w.end + 1)..(w.start - 1),
        reason |-> "outside trading window"],
       [passes |-> \/ Off(cfg.DAILY_RISK_USD_LIMIT)
                   \/ Abs(ps.daily_realized_loss_usd) < cfg.DAILY_RISK_USD_LIMIT,
        reason |-> "daily loss limit reached"],
       [passes |-> \/ Off(cfg.MAX_CONCURRENT_TRADES)
                   \/ ps.open_trades < cfg.MAX_CONCURRENT_TRADES,
        reason |-> "max concurrent trades reached"],
       [passes |-> notional > 0, reason |-> "plan has zero notional"],
       [passes |-> \/ Off(cfg.PER_SYMBOL_EXPOSURE_USD_MAX)
                   \/ SymbolExposure(ps, plan.symbol) + notional
                         <= cfg.PER_SYMBOL_EXPOSURE_USD_MAX,
        reason |-> "symbol exposure > limit"],
       [passes |-> \/ Off(cfg.TOTAL_EXPOSURE_USD_MAX)
                   \/ ps.total_exposure_usd + notional <= cfg.TOTAL_EXPOSURE_USD_MAX,
        reason |-> "total exposure limit reached"],
       [passes |-> \/ Off(cfg.PER_TRADE_RISK_USD)
                   \/ TradeRiskCents(plan) <= cfg.PER_TRADE_RISK_USD * 100,
        reason |-> "per-trade risk exceeds limit"] >>

\* (allowed, ok) when every check passes, else the reason of the first that fails
FirstFailure(checks) ==
    IF \A i \in DOMAIN checks : checks[i].passes
    THEN [allowed |-> TRUE, reason |-> "ok"]
    ELSE LET i == CHOOSE j \in DOMAIN checks :
                      /\ ~checks[j].passes
                      /\ \A k \in 1..(j - 1) : checks[k].passes
         IN  [allowed |-> FALSE, reason |-> checks[i].reason]

\* C6 (amended): check_policy returns the reason of the first failing check
\* in the claim's order, and (allowed, ok) only when every check passes,
\* where the trading-window check passes when no window is configured and a
\* limit or cap check passes when its limit or cap is 0.
C6_FirstFailingCheck == pol.done => pol.out = FirstFailure(PolicyChecks(TRUE))

\* C6 (as written): the same with every check compared as the claim words it
C6_AsWritten == pol.done => pol.out = FirstFailure(PolicyChecks(FALSE))

C6_Witness ==
    /\ pol.done
    /\ Cardinality({i \in 1..12 : ~PolicyChecks(TRUE)[i].passes}) >= 2
    /\ pol.out.reason = "symbol exposure > limit"

----------------------------------------------------------------------------
(* Properties of the TTL cache under threads *)

\* C11: with several threads inside get, set, pop and clear, no get has
\* returned a value that no set stored for its key, and no lazy removal
\* inside a get has deleted an entry that had not expired, such as one a
\* concurrent set had just stored; and at most one thread is past the lock.
C11_AtomicOperations ==
    /\ ~audit.foreign
    /\ ~audit.lostFresh
    /\ Cardinality({t \in Threads : thr[t].pc \in {"in", "read"}}) <= 1

C11_Witness ==
    \E t1, t2 \in Threads :
        /\ thr[t1].pc = "read"
        /\ thr[t1].entry.expires_at <= now
        /\ thr[t2].pc = "wait" /\ thr[t2].op = "set" /\ thr[t2].key = thr[t1].key

----------------------------------------------------------------------------
(* Properties of _request_with_retries *)

RateLimited(exc) ==
    exc.cls \in {"RateLimitError", "RateLimitExceeded"} \/ exc.status \/ exc.message

Transient(exc) == exc.cls \in {"NetworkError", "RequestTimeout", "ExchangeNotAvailable"}

OtherVenueError(exc) == exc.cls \in {"AuthenticationError", "BadSymbol", "BadRequest"}

Finished == req.pc \in {"returned", "raised"}

\* ExchangeError and the RateLimitError derived from it
ExchangeErrors == {"ExchangeError", "RateLimitError"}

\* what the loop does with the calls it has made, whichever errors count as
\* not retryable: such an error is the last call made, so the only one when
\* it is the first, and it is raised as an ExchangeError;
\* a rate-limit or transient error short of the budget does not end it; a
\* response is returned as soon as there is one; the venue function is called
\* at most max_retries times and the failure that uses up the budget is raised
RetryContract(NotRetryable(_)) ==
    LET n == Len(req.calls)
        failed(i) == req.calls[i] # OkResponse
    IN
    /\ n <= req.max_retries
    /\ \A i \in 1..n :
          /\ NotRetryable(req.calls[i])
                => i = n /\ req.pc = "raised" /\ req.raised \in ExchangeErrors
          /\ ~failed(i) => i = n /\ req.pc = "returned"
          /\ failed(i) /\ i < n => RateLimited(req.calls[i]) \/ Transient(req.calls[i])
                                       \/ req.calls[i].cls = "ValueError"
          /\ /\ i = n /\ i < req.max_retries
             /\ RateLimited(req.calls[i]) \/ Transient(req.calls[i])
             => req.pc # "raised"
          /\ failed(i) /\ i = req.max_retries
                => req.pc = "raised" /\ req.raised \in ExchangeErrors
    /\ req.pc = "returned" => n >= 1 /\ ~failed(n)
    /\ req.pc = "raised" => n >= 1 /\ failed(n)

Unmarked(exc) == OtherVenueError(exc) /\ ~RateLimited(exc)

\* C12: a venue error of the auth, not-found or malformed kind that carries
\* no rate-limit mark (status 429, "429" or "rate limit" in its message) is
\* raised as ExchangeError after exactly one call of the venue function;
\* rate-limit and transient errors are retried; the first response is
\* returned; the venue function is called at most max_retries times, the
\* failure that uses up the budget is raised, and every call that has started
\* finishes.
C12_RetryLoop ==
    /\ [](RetryContract(Unmarked))
    /\ [](req.pc = "raised" /\ Unmarked(req.calls[Len(req.calls)])
             => req.raised = "ExchangeError")
    /\ (req.pc \in {"try", "sleep"}) ~> Finished

\* C12 as stated: every auth, not-found or malformed error ends the loop
\* after one call, whatever its status or message
C12_AsWritten == RetryContract(OtherVenueError)

C12_Witness ==
    /\ req.pc = "returned"
    /\ req.max_retries = MaxRetries
    /\ Len(req.calls) = MaxRetries
    /\ RateLimited(req.calls[1])
    /\ Transient(req.calls[2])

----------------------------------------------------------------------------
(* Properties of QualityGates.evaluate *)

EvConfig == QualityGatesConfig(ev.max_setups)

\* the hard gates, read off the values recorded on a decision
HardGatesHold(d) ==
    /\ FLeq(EvConfig.min_rr, d.rr)
    /\ FLeq(EvConfig.entry_distance_pct[1], d.entry_distance_pct)
    /\ FLeq(d.entry_distance_pct, EvConfig.entry_distance_pct[2])
    /\ FLeq(Whole(d.candidate.minutes_old), EvConfig.max_setup_age_min)
    /\ FLeq(EvConfig.min_volume_usd, Whole(d.candidate.volume_usd_24h))
    /\ FLeq(d.spread_bps, EvConfig.max_spread_bps)
    /\ d.confluence >= EvConfig.min_confluence
    /\ FLeq(EvConfig.min_score, d.score)
    /\ ev.exchange \in {"phemex", "Phemex"} => d.candidate.phemex_listed

\* C13: every decision evaluate returns satisfies every hard gate with the
\* values recorded on it (the listing gate only when the venue is phemex),
\* the recorded values are those of its candidate, and no candidate that
\* fails a hard gate is among the candidates returned.
C13_HardGates ==
    ev.called =>
        /\ \A i \in 1..Len(ev.decisions) :
              /\ HardGatesHold(ev.decisions[i])
              /\ ev.decisions[i] = GateDecision(ev.decisions[i].candidate, EvConfig)
        /\ \A j \in 1..Len(ev.candidates) :
              ~HardGatesHold(GateDecision(ev.candidates[j], EvConfig))
                  => \A i \in 1..Len(ev.decisions) :
                        ev.decisions[i].candidate # ev.candidates[j]

C13_Witness ==
    /\ ev.called
    /\ ev.exchange = "phemex"
    /\ Len(ev.decisions) = 1
    /\ Len(ev.candidates) = 2
    /\ ~ev.candidates[1].phemex_listed
    /\ FLess(Whole(80), GateDecision(ev.candidates[1], EvConfig).score)

\* the positions in the input of the candidates that pass every hard gate
Accepted == {j \in 1..Len(ev.candidates) :
                HardGatesHold(GateDecision(ev.candidates[j], EvConfig))}

ScoreAt(j) == GateDecision(ev.candidates[j], EvConfig).score

\* candidate j ranks ahead of candidate k: higher score, or equal and earlier
Ahead(j, k) == FLess(ScoreAt(k), ScoreAt(j)) \/ (ScoreAt(j) = ScoreAt(k) /\ j < k)

\* C14: the decisions are accepted candidates in non-increasing score order,
\* equal scores in input order; there are at most max_setups of them, and
\* every accepted candidate left out ranks behind every one returned.
C14_RankedAndCapped ==
    ev.called =>
        LET m == Len(ev.decisions)
        IN  /\ m <= ev.max_setups
            /\ m = IF Cardinality(Accepted) < ev.max_setups
                   THEN Cardinality(Accepted) ELSE ev.max_setups
            /\ \E pos \in [1..m -> Accepted] :
                  /\ \A i \in 1..m :
                        ev.decisions[i] = GateDecision(ev.candidates[pos[i]], EvConfig)
                  /\ \A i, k \in 1..m : i < k => Ahead(pos[i], pos[k])
                  /\ \A j \in Accepted :
                        (\A i \in 1..m : pos[i] # j) => \A i \in 1..m : Ahead(pos[i], j)

C14_Witness ==
    /\ ev.called
    /\ ev.max_setups = 1
    /\ Accepted = {1, 2}
    /\ FLess(ScoreAt(1), ScoreAt(2))
    /\ Len(ev.decisions) = 1
    /\ ev.decisions[1].candidate = ev.candidates[2]

----------------------------------------------------------------------------
(* Properties of TradeScanner.scan *)

\* the position at which a pair was submitted
Submitted(symbol) == CHOOSE i \in 1..NumPairs : ScanPairs[i] = symbol

\* C15: the top setups of a finished scan are in non-increasing score order,
\* and setups of equal score are in the order their pairs were submitted,
\* whatever the order in which the workers finished.
C15_TiesInSubmissionOrder ==
    scn.pc = "done" =>
        \A a, b \in 1..Len(scn.top) :
            a < b =>
                /\ FLeq(scn.top[b].score, scn.top[a].score)
                /\ scn.top[a].score = scn.top[b].score
                      => Submitted(scn.top[a].symbol) < Submitted(scn.top[b].symbol)

\* C19: once a stop has been asked for, no queued pair is started, and the
\* result of a scan that was asked to stop says cancelled in its metadata.
C19_CancelStopsScan ==
    /\ [][scn.cancel => \A i \in 1..NumPairs :
                            scn'.task[i] = "running" => scn.task[i] = "running"]_vars
    /\ [](scn.pc = "done" /\ scn.cancel => "cancelled" \in scn.metadata)

----------------------------------------------------------------------------
(* Properties of scan_once *)

\* the venue of the call lists the symbol as tradable
VenueSupports(symbol) ==
    /\ so.args.exchange.exchange_id = <<"phemex">>
    /\ symbol \in DOMAIN so.args.exchange.markets
    /\ so.args.exchange.markets[symbol] = "active"

ResultsPassFilters ==
    \A k \in 1..Len(so.results) :
        LET r == so.results[k]
        IN  /\ FLeq(so.args.min_score, r.score)
            /\ FLeq(Whole(2), r.rr)
            /\ r.liq_safe
            /\ FLeq(r.spread_bps, Whole(300))
            /\ VenueSupports(r.symbol)

StatsAgree ==
    /\ so.stats.returned = Len(so.results)
    /\ so.stats.returned <= so.stats.qualified

\* C16: every entry of the results of scan_once has score >= min_score,
\* rr >= 2.0, liq_safe true, spread_bps <= 300 and a symbol the venue
\* supports; there are at most max(0, limit) of them; and
\* meta.stats.returned = len(results) <= meta.stats.qualified.
C16_ResultsFiltered ==
    so.pc = "returned" =>
        /\ ResultsPassFilters
        /\ Len(so.results) <= (IF so.args.limit < 0 THEN 0 ELSE so.args.limit)
        /\ StatsAgree

\* C16 as stated: the results are at most `limit` many, whatever the limit
C16_AsWritten ==
    so.pc = "returned" =>
        /\ ResultsPassFilters
        /\ Len(so.results) <= so.args.limit
        /\ StatsAgree

C16_Witness ==
    /\ so.pc = "returned"
    /\ so.args.limit = 1
    /\ Len(so.results) = 1
    /\ so.stats.qualified > 1
    /\ Len(so.draws) = 2
    /\ so.draws[1].setup.rr = Frac(1994, 1000)

C18_FailureIsolated ==
    /\ so.pc # "raised"
    /\ so.pc = "returned" => so.stats.pairs = Len(so.args.symbols)

----------------------------------------------------------------------------
(* Properties of position_size_leverage *)

\* qty is a whole, non-negative number of lots
OnLotGrid(qty, lot_size) ==
    /\ FLeq(Whole(0), qty)
    /\ FDiv(qty, lot_size)[2] = 1

MeetsMinNotional(qty, price, min_notional) ==
    qty = Whole(0) \/ FLeq(min_notional, FMul(qty, price))

\* C20: for a call with lot_size > 0 that returns, the qty returned by
\* position_size_leverage is a non-negative integer multiple of lot_size,
\* and qty * price >= min_notional unless qty = 0.
C20_QtyQuantised ==
    (sz.pc = "done" /\ sz.result.kind = "return" /\ FLess(Whole(0), sz.args.lot_size)) =>
        /\ OnLotGrid(sz.result.qty, sz.args.lot_size)
        /\ MeetsMinNotional(sz.result.qty, sz.args.price, sz.args.min_notional)

\* the returned qty lies on the lot grid
QtyOnLotGrid ==
    (sz.pc = "done" /\ sz.result.kind = "return" /\ FLess(Whole(0), sz.args.lot_size)) =>
        OnLotGrid(sz.result.qty, sz.args.lot_size)

----------------------------------------------------------------------------
(* Properties of the liquidation check of position_size_leverage *)

\* liq lies strictly beyond the stop of the call, by at least the larger buffer
BeyondStopWithGap(a, liq) ==
    LET min_gap == min_gap_of(a.stop, a.atr, a.cfg.LIQ_BUFFER_PCT,
                              a.cfg.LIQ_BUFFER_ATR_MULT)
    IN  IF a.side = "LONG"
        THEN FLess(liq, a.stop) /\ FLeq(min_gap, FSub(a.stop, liq))
        ELSE FLess(a.stop, liq) /\ FLeq(min_gap, FSub(liq, a.stop))

\* the liquidation price at the leverage the caller asked for
InitialLiq(a) == estimate_liq_price(a.entry, a.side, a.leverage, a.maint_margin_rate)

\* liq is what a leverage of at most the one asked for gives
AtSmallerLeverage(a, liq) ==
    IF a.side = "LONG" THEN FLeq(liq, InitialLiq(a)) ELSE FLeq(InitialLiq(a), liq)

\* the call went as far as the liquidation check, with both flags set, and
\* the first liquidation price was inside the buffer
UnsafeWithReduceAndSkip ==
    /\ sz.pc = "done"
    /\ sz.result.kind = "return"
    /\ sz.args.cfg.REDUCE_SIZE_IF_LIQ_TOO_CLOSE
    /\ sz.args.cfg.SKIP_IF_AFTER_REDUCE_STILL_UNSAFE
    /\ FLess(Whole(0), sz.args.risk_usd)
    /\ sz.args.entry # sz.args.stop
    /\ ~BeyondStopWithGap(sz.args, InitialLiq(sz.args))

\* C21: with reduce-on-unsafe and skip-on-unsafe both enabled and the first
\* liquidation price inside the buffer, position_size_leverage returns
\* either qty = 0 with a reason, or a qty > 0 marked reduced together with a
\* liquidation price, at a leverage no larger than the one asked for, that is
\* strictly beyond the stop with a gap >= max(pct_buffer, atr_buffer).
C21_ReducedOrSkipped ==
    UnsafeWithReduceAndSkip =>
        \/ sz.result.qty = Whole(0) /\ sz.result.reason # ""
        \/ /\ FLess(Whole(0), sz.result.qty)
           /\ sz.result.reduced
           /\ AtSmallerLeverage(sz.args, sz.result.liq)
           /\ BeyondStopWithGap(sz.args, sz.result.liq)

C21_Witness ==
    /\ UnsafeWithReduceAndSkip
    /\ FLess(Whole(0), sz.result.qty)
    /\ sz.result.reduced
    /\ FLess(Whole(0), sz.args.lot_size)
    /\ sz.args.cfg.LIQ_BUFFER_PCT = Whole(5)

\* the skipping half of C21 happens as well
C21_SkipReached ==
    /\ UnsafeWithReduceAndSkip
    /\ sz.result.qty = Whole(0)
    /\ sz.result.reason = "qty below min notional after reduce"

----------------------------------------------------------------------------
(* Properties of decide_execution *)

NearIsLimit == DictGet(dx.near, "type", None) = Some("limit")

FarIsLimit == DictGet(dx.far, "type", None) = Some("limit")

Deadline == Some(dx.now_ts_ms + timeout_ms(dx.cfg))

MakerTimeoutFallback ==
    Some([type |-> "stop", price |-> DictGet(dx.near, "price", None),
          activate_after_ms |-> timeout_ms(dx.cfg), reason |-> "maker_timeout"])

\* C23: decide_execution installs the fallback {type: stop, price: near.price,
\* activate_after_ms: timeout, reason: maker_timeout} and sets
\* near_plan.valid_until_ms = now + timeout if and only if the type of the
\* near entry is limit; for any other near entry there is no fallback and no
\* validity deadline.
C23_FallbackIffLimit ==
    dx.pc = "done" =>
        IF NearIsLimit
        THEN /\ dx.plan.fallback = MakerTimeoutFallback
             /\ dx.plan.near_plan.valid_until_ms = Deadline
        ELSE /\ dx.plan.fallback = None
             /\ dx.plan.near_plan.valid_until_ms = None

C23_Witness ==
    /\ dx.pc = "done"
    /\ NearIsLimit
    /\ dx.cfg = [k \in {"ENTRY_TIMEOUT_SEC"} |-> Frac(1, 2)]
    /\ dx.now_ts_ms = 1000
    /\ dx.plan.near_plan.valid_until_ms = Some(1500)
    /\ dx.plan.fallback # None

\* C24: whenever the far entry is a limit, far_plan carries
\* valid_until_ms = now + timeout.
C24_FarInheritsTimeout ==
    (dx.pc = "done" /\ FarIsLimit) =>
        /\ "valid_until_ms" \in DOMAIN dx.plan.far_plan
        /\ dx.plan.far_plan["valid_until_ms"] = Deadline

\* what the code does: no far_plan ever carries a deadline
FarNeverCarriesDeadline ==
    dx.pc = "done" => "valid_until_ms" \notin DOMAIN dx.plan.far_plan

----------------------------------------------------------------------------
(* Properties of TradeSetup *)

MinOf(seq) == CHOOSE x \in {seq[k] : k \in 1..Len(seq)} :
                 \A y \in {seq[k] : k \in 1..Len(seq)} : x <= y

MaxOf(seq) == CHOOSE x \in {seq[k] : k \in 1..Len(seq)} :
                 \A y \in {seq[k] : k \in 1..Len(seq)} : x >= y

LevelsOrdered(s) ==
    /\ s.direction \in {"LONG", "SHORT"}
    /\ s.direction = "LONG" =>
          s.stop_loss < s.entry_plan[1] /\ s.entry_plan[1] < MinOf(s.take_profits)
    /\ s.direction = "SHORT" =>
          s.stop_loss > s.entry_plan[1] /\ s.entry_plan[1] > MaxOf(s.take_profits)
    /\ FLess(Whole(0), s.rr)
    /\ s.reasons # <<>>

\* every TradeSetup that has been constructed has ordered levels, rr > 0 and
\* reasons, and a construction ends in ValueError exactly when they are not
ConstructedSetupsOrdered ==
    /\ \A k \in 1..Len(mk.built) : LevelsOrdered(mk.built[k])
    /\ mk.pc = "ValueError" => ~TradeSetupAccepted(mk.fields)

ScoreSetupBuilt ==
    /\ mk.pc = "built"
    /\ mk.by = "score_setup"
    /\ mk.built[1].direction = "SHORT"

ScoreSetupRejected ==
    /\ mk.pc = "ValueError"
    /\ mk.by = "score_setup"

\* C22: every TradeSetup that is constructed, those of score_setup included,
\* has stop_loss < entry_plan[0] < min(take_profits) when LONG, the reverse
\* when SHORT, rr > 0 and reasons (ConstructedSetupsOrdered); and a
\* construction whose levels violate this is rejected and aborts only that
\* setup: the scan that asked for it does not end with the rejection.
C22_RejectionAbortsOnlySetup ==
    so.error # "InvalidSetup"

----------------------------------------------------------------------------
(* The trade command *)

\* the plan of trader t passes every check of the policy gate once the
\* switch is on and the mode is one the gate supports
PassesEveryCheck(t) ==
    check_policy(tr[t].plan, tr[t].state,
                 [build_cfg("paper") EXCEPT !.AUTOTRADE_ENABLED = TRUE],
                 TradeToday, tr[t].clock).allowed

\* C25: in mode dry a plan that passes every policy check ends with status
\* "dry", having placed no order and written no order state; only a plan
\* that fails a check ends with status "blocked"
C25_DryRunReportsDry ==
    \A t \in Traders :
        (tr[t].pc = "done" /\ tr[t].mode = "dry" /\ PassesEveryCheck(t))
            => (tr[t].status = "dry" /\ tr[t].placed = 0 /\ tr[t].writes = 0)

\* what does hold in mode dry: nothing is placed and nothing is written
DryRunTouchesNothing ==
    \A t \in Traders :
        tr[t].mode = "dry" => (tr[t].placed = 0 /\ tr[t].writes = 0)

\* C29: the orders open on the state file stay within the configured caps:
\* their number, the exposure of each symbol, and the total exposure
C29_CapsHoldAcrossTraders ==
    LET state == portfolio_state_of(load_state(file))
        cfg == build_cfg("paper")
    IN  /\ state.open_trades <= cfg.MAX_CONCURRENT_TRADES
        /\ \A s \in DOMAIN state.symbol_exposure :
              state.symbol_exposure[s] <= cfg.PER_SYMBOL_EXPOSURE_USD_MAX
        /\ state.total_exposure_usd <= cfg.TOTAL_EXPOSURE_USD_MAX

----------------------------------------------------------------------------
(* The timeframe confluence of score_setup *)

\* the timeframes of the mapping whose direction is the overall one
AlignedTimeframes(r) ==
    {tf \in DOMAIN r.timeframe_confluence : r.timeframe_confluence[tf] = r.direction}

\* C27: the timeframe-confluence mapping of a returned setup holds no
\* NEUTRAL timeframe, and confluence_score is 100 times the share of its
\* timeframes whose direction is the overall direction
C27_ConfluenceIsAlignedShare ==
    (sc.pc = "done" /\ sc.result.built)
        => /\ \A tf \in DOMAIN sc.result.timeframe_confluence :
                 sc.result.timeframe_confluence[tf] # "NEUTRAL"
           /\ DOMAIN sc.result.timeframe_confluence # {}
                 => sc.result.confluence_score =
                        Frac(100 * Cardinality(AlignedTimeframes(sc.result)),
                             Cardinality(DOMAIN sc.result.timeframe_confluence))

\* what the score is: the share of the larger of the LONG and the SHORT
\* timeframes, the NEUTRAL ones counted in the total
ConfluenceIsMajorityShare ==
    (sc.pc = "done" /\ sc.result.built)
        => LET m == sc.result.timeframe_confluence
               long_count == Cardinality({tf \in DOMAIN m : m[tf] = "LONG"})
               short_count == Cardinality({tf \in DOMAIN m : m[tf] = "SHORT"})
           IN  /\ DOMAIN m # {}
               /\ \/ sc.result.confluence_score = Frac(100 * long_count, Cardinality(DOMAIN m))
                  \/ sc.result.confluence_score = Frac(100 * short_count, Cardinality(DOMAIN m))
               /\ ~FLess(sc.result.confluence_score,
                         Frac(100 * Cardinality(AlignedTimeframes(sc.result)),
                              Cardinality(DOMAIN m)))

\* a returned setup whose majority of timeframes points against its direction
MajorityAgainstDirection ==
    /\ sc.pc = "done"
    /\ sc.result.built
    /\ \A tf \in DOMAIN sc.result.timeframe_confluence :
          sc.result.timeframe_confluence[tf] # "NEUTRAL"
    /\ 2 * Cardinality(AlignedTimeframes(sc.result))
          < Cardinality(DOMAIN sc.result.timeframe_confluence)

----------------------------------------------------------------------------
(* The symbol scan_once works on *)

\* the canonical BASE/QUOTE form of the i-th requested symbol
CanonicalRequested(i) ==
    normalize_symbol_for_exchange(so.args.symbols[i], so.args.exchange.exchange_id)

\* the symbol the round of the i-th requested symbol works on
ProcessedSymbol(i) ==
    normalize_symbol_for_exchange(so.args.exchange.exchange_id, so.args.symbols[i])

\* the venue lists the i-th requested symbol as an active market
ListedOnVenue(i) ==
    /\ CanonicalRequested(i) \in DOMAIN so.args.exchange.markets
    /\ so.args.exchange.markets[CanonicalRequested(i)] = "active"

\* C28: every candidate of scan_once carries the canonical form of a
\* requested symbol, and the venue-listing filter lets through the symbol
\* worked on for every requested symbol that the venue lists
C28_ProcessedAsRequested ==
    /\ \A k \in DOMAIN so.all_candidates :
          \E i \in DOMAIN so.args.symbols :
              so.all_candidates[k].symbol = CanonicalRequested(i)
    /\ LowerId(so.args.exchange.exchange_id) = <<"phemex">>
          => \A i \in DOMAIN so.args.symbols :
                ListedOnVenue(i) => is_pair_on_phemex(so.args.exchange, ProcessedSymbol(i))

\* what the candidates carry: the upper-cased exchange id with /USDT
CandidatesCarryExchangeId ==
    \A k \in DOMAIN so.all_candidates :
        so.all_candidates[k].symbol
            = <<Upper(LowerId(so.args.exchange.exchange_id)[1]), "/", "USDT">>

----------------------------------------------------------------------------
(* The order states of the paper client *)

\* C30: an order that cancel has acted on keeps the status canceled, and an
\* amend or cancel that raises for an unknown order id leaves every stored
\* order as it was
C30_CanceledIsFinal ==
    /\ \A o \in pp.canceled : orders[o].status = "canceled"
    /\ (pp.op \in {"amend", "cancel"} /\ pp.raised) => orders = pp.before

\* the half that holds: a call that raises changes no stored order
RaiseLeavesOrdersAlone ==
    (pp.op \in {"amend", "cancel"} /\ pp.raised) => orders = pp.before

\* an amend or cancel on an unknown order id has raised
UnknownIdRaised == pp.op \in {"amend", "cancel"} /\ pp.raised

----------------------------------------------------------------------------
(* The lists fetch_ohlcv hands out *)

\* C26: a fetch answered by the cache returns the candles that the fetch
\* which filled the key returned, whatever callers did to their lists since
C26_NoAliasIntoCache ==
    al.ret.hit => al.ret.content = al.filled[al.ret.key]

\* a fetch answered by the cache after a caller changed a list
HitAfterMutation == al.ret.hit /\ al.mutations > 0

\* without a change by a caller the cache answers with what it was given
HitsRepeatUnlessMutated ==
    (al.ret.hit /\ al.mutations = 0) => al.ret.content = al.filled[al.ret.key]

====
